---- MODULE Spec2Model ----
(***************************************************************************)
(* A model of the in-memory AnkiConnect backend of anki-mcp                *)
(* (tests/mock_anki.py): the deck / note / card / tag state, the handlers  *)
(* that mutate it and the search-query matcher.                            *)
(*                                                                         *)
(* Python values are represented as follows.                               *)
(*   dict (insertion ordered)  a sequence of <<key, value>> pairs          *)
(*   state.notes, state.cards  a sequence of records in insertion order,   *)
(*                             keyed by note_id / card_id                  *)
(*   list                      a sequence                                  *)
(*   set                       a set                                       *)
(*   None / a value that may   the empty sequence <<>> / the one-element   *)
(*   be None                   sequence <<v>>                              *)
(*   str used as a query or    a sequence of lexical atoms (see the query  *)
(*   a tag string              matcher below)                              *)
(***************************************************************************)
EXTENDS Integers, Sequences, FiniteSets, TLC

VARIABLES decks, notes, cards, tags, next_note_id, next_card_id, next_deck_id,
          request, response,
          client,     \* the last AnkiClient._invoke: what came back, what it did
          tool,       \* the last tool call of the MCP server
          inflight,   \* requests that reached the backend and await their body
          served,     \* the requests the backend has answered, in order
          running,    \* the tool calls of the MCP server suspended at an await
          called      \* the last call of a function of spanish.py

vars == <<decks, notes, cards, tags, next_note_id, next_card_id, next_deck_id,
          request, response, client, tool, inflight, served, running,
          called>>

-----------------------------------------------------------------------------
(* Bounds of the model.                                                    *)

\* Number of note ids (and card ids) the model lets the backend hand out.
MaxNotes == 2

\* Longest tag list a note may grow to through addTags.
MaxTags == 2

\* Requests the backend holds at one time, and requests it answers in all.
MaxInFlight == 2
MaxServed == 3

\* Tool calls the MCP server holds at one time.
MaxRunning == 2

\* Longest sentence and longest target word given to format_sentence_cloze.
MaxSentence == 4
MaxTarget == 2

\* Longest word given to suggest_tags.
MaxWord == 4

-----------------------------------------------------------------------------
(* Program constants.                                                      *)

FirstNoteId == 1000000000
FirstCardId == 1000000000
FirstDeckId == 100
DefaultDeckId == 1
DefaultFactor == 2500
LowEaseFactor == 1500
ProblemLapses == 5
HelperInterval == 10
MatureInterval == 21
QueueNew == 0
QueueLearning == 1
QueueReview == 2

\* HTTP status codes: the one the backend answers with, the last one
\* raise_for_status lets through, and two it does not.
HttpOk == 200
HttpLastSuccess == 299
HttpNotFound == 404
HttpServerError == 500

models ==
    [m \in {"Basic", "Cloze", "Basic (and reversed card)"} |->
        IF m = "Cloze" THEN <<"Text", "Extra">> ELSE <<"Front", "Back">>]

-----------------------------------------------------------------------------
(* Python helpers.                                                         *)

None == <<>>
Some(v) == <<v>>

Range(s) == { s[i] : i \in 1..Len(s) }

\* key in d
DictHas(d, k) == \E i \in 1..Len(d) : d[i][1] = k

\* d.get(k, default)
DictGet(d, k, default) ==
    IF DictHas(d, k)
    THEN d[CHOOSE i \in 1..Len(d) : d[i][1] = k][2]
    ELSE default

\* d[k] = v : an existing key keeps its position, a new key goes last
DictSet(d, k, v) ==
    IF DictHas(d, k)
    THEN [i \in 1..Len(d) |-> IF d[i][1] = k THEN <<k, v>> ELSE d[i]]
    ELSE Append(d, <<k, v>>)

\* d.update(u)
RECURSIVE DictUpdate(_, _)
DictUpdate(d, u) ==
    IF u = <<>> THEN d
    ELSE DictUpdate(DictSet(d, u[1][1], u[1][2]), Tail(u))

\* list(d.values())[0] if d else ""
FirstValue(d) == IF d # <<>> THEN d[1][2] ELSE ""

\* zip(a, b): pairs up to the shorter of the two
Zip(a, b) ==
    LET n == IF Len(a) < Len(b) THEN Len(a) ELSE Len(b)
    IN  [i \in 1..n |-> <<a[i], b[i]>>]

-----------------------------------------------------------------------------
(* The backend state as one value, so that handlers compose.               *)

State ==
    [decks |-> decks, notes |-> notes, cards |-> cards, tags |-> tags,
     next_note_id |-> next_note_id, next_card_id |-> next_card_id,
     next_deck_id |-> next_deck_id]

MockAnkiState ==
    [decks |-> << <<"Default", DefaultDeckId>> >>,
     notes |-> <<>>, cards |-> <<>>, tags |-> {},
     next_note_id |-> FirstNoteId, next_card_id |-> FirstCardId,
     next_deck_id |-> FirstDeckId]

MockNote(note_id, deck_name, model_name, fields, tgs) ==
    [note_id |-> note_id, deck_name |-> deck_name, model_name |-> model_name,
     fields |-> fields, tags |-> tgs]

\* MockCard that shows the question on both sides.
MockCardOneSided(card_id, note_id, deck_name, question, answer) ==
    [card_id |-> card_id, note_id |-> note_id, deck_name |-> deck_name,
     question |-> question, answer |-> question,
     factor |-> DefaultFactor, interval |-> 0, lapses |-> 0,
     queue |-> QueueNew, type |-> 0, due |-> 0,
     suspended |-> FALSE, buried |-> FALSE]

MockCard(card_id, note_id, deck_name, question, answer) ==
    [card_id |-> card_id, note_id |-> note_id, deck_name |-> deck_name,
     question |-> question, answer |-> answer,
     factor |-> DefaultFactor, interval |-> 0, lapses |-> 0,
     queue |-> QueueNew, type |-> 0, due |-> 0,
     suspended |-> FALSE, buried |-> FALSE]

NoteIds(s) == { s.notes[i].note_id : i \in 1..Len(s.notes) }
CardIds(s) == { s.cards[i].card_id : i \in 1..Len(s.cards) }

\* state.notes[note_id] = note
NotesSet(ns, note) ==
    IF \E i \in 1..Len(ns) : ns[i].note_id = note.note_id
    THEN [i \in 1..Len(ns) |-> IF ns[i].note_id = note.note_id THEN note ELSE ns[i]]
    ELSE Append(ns, note)

\* state.cards[card_id] = card
CardsSet(cs, card) ==
    IF \E i \in 1..Len(cs) : cs[i].card_id = card.card_id
    THEN [i \in 1..Len(cs) |-> IF cs[i].card_id = card.card_id THEN card ELSE cs[i]]
    ELSE Append(cs, card)

\* state.notes.get(note_id), as None or the note
NoteOf(s, note_id) ==
    IF note_id \in NoteIds(s)
    THEN Some(s.notes[CHOOSE i \in 1..Len(s.notes) : s.notes[i].note_id = note_id])
    ELSE None

\* state.cards.get(card_id), as None or the card
CardOf(s, card_id) ==
    IF card_id \in CardIds(s)
    THEN Some(s.cards[CHOOSE i \in 1..Len(s.cards) : s.cards[i].card_id = card_id])
    ELSE None

-----------------------------------------------------------------------------
(* Handlers.  Each takes the state and the request's params and returns    *)
(* the state it leaves and the value it returns.                           *)

\* create_deck that allocates an id whether or not the deck exists.
create_deck_always_new(s, params) ==
    LET deck_name == params.deck
    IN  [state |-> [s EXCEPT !.decks = DictSet(@, deck_name, s.next_deck_id),
                             !.next_deck_id = @ + 1],
         result |-> s.next_deck_id]

create_deck(s, params) ==
    LET deck_name == params.deck
    IN  IF ~DictHas(s.decks, deck_name)
        THEN [state |-> [s EXCEPT !.decks = DictSet(@, deck_name, s.next_deck_id),
                                  !.next_deck_id = @ + 1],
              result |-> s.next_deck_id]
        ELSE [state |-> s, result |-> DictGet(s.decks, deck_name, 0)]

\* IsDuplicate that looks at the deck of the note's cards.
IsDuplicateByCardDeck(s, fields, deck_name) ==
    \E i \in 1..Len(s.notes) :
        /\ FirstValue(s.notes[i].fields) = FirstValue(fields)
        /\ \E k \in 1..Len(s.cards) :
                /\ s.cards[k].note_id = s.notes[i].note_id
                /\ s.cards[k].deck_name = deck_name

\* IsDuplicate with the deck left out of the comparison.
IsDuplicateAnyDeck(s, fields, deck_name) ==
    LET first_field_value == FirstValue(fields)
    IN  \E i \in 1..Len(s.notes) :
            FirstValue(s.notes[i].fields) = first_field_value

\* d[key] for each key in turn: the first key that d lacks, "" when it
\* has them all.
RECURSIVE MissingKey(_, _)
MissingKey(d, keys) ==
    IF keys = <<>> THEN ""
    ELSE IF Head(keys) \notin DOMAIN d THEN Head(keys)
    ELSE MissingKey(d, Tail(keys))

\* str(KeyError(key))
KeyError(key) == "'" \o key \o "'"

\* The duplicate test shared by addNote and canAddNotes.
IsDuplicate(s, fields, deck_name) ==
    LET first_field_value == FirstValue(fields)
    IN  \E i \in 1..Len(s.notes) :
            /\ FirstValue(s.notes[i].fields) = first_field_value
            /\ s.notes[i].deck_name = deck_name

add_note(s, params) ==
    LET note_data  == params.note
        deck_name  == note_data.deckName
        model_name == note_data.modelName
        fields     == note_data.fields
        tgs        == IF "tags" \in DOMAIN note_data THEN note_data.tags ELSE <<>>
        note_id    == s.next_note_id
        note       == MockNote(note_id, deck_name, model_name, fields, tgs)
        card_id    == s.next_card_id
        field_names == IF model_name \in DOMAIN models
                       THEN models[model_name] ELSE <<"Front", "Back">>
        question   == IF field_names # <<>>
                      THEN DictGet(fields, field_names[1], "") ELSE ""
        answer     == IF Len(field_names) > 1
                      THEN DictGet(fields, field_names[2], "") ELSE ""
        card       == MockCard(card_id, note_id, deck_name, question, answer)
        s1 == [s EXCEPT !.next_note_id = @ + 1,
                        !.notes = NotesSet(@, note),
                        !.tags = @ \cup Range(tgs),
                        !.next_card_id = @ + 1,
                        !.cards = CardsSet(@, card)]
        s2 == IF ~DictHas(s1.decks, deck_name)
              THEN create_deck(s1, [deck |-> deck_name]).state
              ELSE s1
        missing == MissingKey(note_data, <<"deckName", "modelName", "fields">>)
    IN  IF missing # ""
        THEN [state |-> s, raised |-> KeyError(missing)]
        ELSE IF IsDuplicate(s, fields, deck_name)
        THEN [state |-> s, result |-> None]
        ELSE [state |-> s2, result |-> Some(note_id)]

\* add_notes that gives up at the first duplicate: the rest get no id.
add_notes_stops_at_duplicate(s, params) ==
    LET notes_in == params.notes
        RECURSIVE Loop(_, _, _, _)
        Loop(st, i, results, stopped) ==
            IF i > Len(notes_in) THEN [state |-> st, result |-> results]
            ELSE IF stopped THEN Loop(st, i + 1, Append(results, None), TRUE)
            ELSE LET out == add_note(st, [note |-> notes_in[i]])
                 IN  Loop(out.state, i + 1, Append(results, out.result),
                          out.result = None)
    IN  Loop(s, 1, <<>>, FALSE)

\* An element that makes _add_note raise ends the loop; the notes added
\* before it stay.
add_notes(s, params) ==
    LET notes_in == params.notes
        RECURSIVE Loop(_, _, _)
        Loop(st, i, results) ==
            IF i > Len(notes_in) THEN [state |-> st, result |-> results]
            ELSE LET out == add_note(st, [note |-> notes_in[i]])
                 IN  IF "raised" \in DOMAIN out
                     THEN [state |-> st, raised |-> out.raised]
                     ELSE Loop(out.state, i + 1, Append(results, out.result))
    IN  Loop(s, 1, <<>>)

\* can_add_notes that looks for the first field in every deck.
can_add_notes_any_deck(s, params) ==
    [state |-> s,
     result |-> [i \in 1..Len(params.notes) |->
                    ~IsDuplicateAnyDeck(s, params.notes[i].fields,
                                        params.notes[i].deckName)]]

can_add_notes(s, params) ==
    LET notes_in == params.notes
        bad == { i \in 1..Len(notes_in) :
                    MissingKey(notes_in[i], <<"fields", "deckName">>) # "" }
    IN  IF bad # {}
        THEN [state |-> s,
              raised |-> KeyError(MissingKey(notes_in[CHOOSE i \in bad :
                                                        \A j \in bad : i <= j],
                                             <<"fields", "deckName">>))]
        ELSE [state |-> s,
              result |-> [i \in 1..Len(notes_in) |->
                        ~IsDuplicate(s, notes_in[i].fields, notes_in[i].deckName)]]

\* str.split(): the maximal runs of non-space atoms, each joined into one word
RECURSIVE SplitFrom(_, _, _)
SplitFrom(str, word, words) ==
    IF str = <<>>
    THEN IF word = "" THEN words ELSE Append(words, word)
    ELSE IF Head(str) = " "
         THEN SplitFrom(Tail(str), "", IF word = "" THEN words ELSE Append(words, word))
         ELSE SplitFrom(Tail(str), word \o Head(str), words)

Split(str) == SplitFrom(str, "", <<>>)

\* Apply f to the card of every listed id that exists, in list order.
ForEachCard(cs, card_ids, f(_)) ==
    LET RECURSIVE Loop(_, _)
        Loop(xs, ids) ==
            IF ids = <<>> THEN xs
            ELSE Loop([i \in 1..Len(xs) |->
                          IF xs[i].card_id = Head(ids) THEN f(xs[i]) ELSE xs[i]],
                      Tail(ids))
    IN  Loop(cs, card_ids)

\* Apply f to the note of every listed id that exists, in list order.
ForEachNote(ns, note_ids, f(_)) ==
    LET RECURSIVE Loop(_, _)
        Loop(xs, ids) ==
            IF ids = <<>> THEN xs
            ELSE Loop([i \in 1..Len(xs) |->
                          IF xs[i].note_id = Head(ids) THEN f(xs[i]) ELSE xs[i]],
                      Tail(ids))
    IN  Loop(ns, note_ids)

add_tags(s, params) ==
    LET note_ids == params.notes
        new_tags == Split(params.tags)
        Extend(n) == [n EXCEPT !.tags = @ \o new_tags]
        touched  == \E i \in 1..Len(note_ids) : note_ids[i] \in NoteIds(s)
    IN  [state |-> [s EXCEPT !.notes = ForEachNote(@, note_ids, Extend),
                             !.tags = IF touched THEN @ \cup Range(new_tags) ELSE @],
         result |-> None]

suspend(s, params) ==
    LET Set(c) == [c EXCEPT !.suspended = TRUE]
    IN  [state |-> [s EXCEPT !.cards = ForEachCard(@, params.cards, Set)],
         result |-> TRUE]

unsuspend(s, params) ==
    LET Clear(c) == [c EXCEPT !.suspended = FALSE]
    IN  [state |-> [s EXCEPT !.cards = ForEachCard(@, params.cards, Clear)],
         result |-> TRUE]

update_note_fields(s, params) ==
    LET note_data == params.note
        note_id   == note_data.id
        fields    == note_data.fields
        Merge(n)  == [n EXCEPT !.fields = DictUpdate(@, fields)]
        Refresh(c) ==
            IF c.note_id = note_id
            THEN [c EXCEPT
                    !.question = IF DictHas(fields, "Front")
                                 THEN DictGet(fields, "Front", "") ELSE @,
                    !.answer   = IF DictHas(fields, "Back")
                                 THEN DictGet(fields, "Back", "") ELSE @]
            ELSE c
    IN  IF note_id \in NoteIds(s)
        THEN [state |-> [s EXCEPT
                            !.notes = ForEachNote(@, <<note_id>>, Merge),
                            !.cards = [i \in 1..Len(@) |-> Refresh(@[i])]],
              result |-> None]
        ELSE [state |-> s, result |-> None]

\* delete_notes without the cascade to the cards.
delete_notes_keeps_cards(s, params) ==
    [state |-> [s EXCEPT !.notes = SelectSeq(@, LAMBDA n : n.note_id \notin Range(params.notes))],
     result |-> None]

\* delete_notes that hands the ids of deleted notes and cards out again.
delete_notes_frees_ids(s, params) ==
    LET kept_notes == SelectSeq(s.notes, LAMBDA n : n.note_id \notin Range(params.notes))
        kept_cards == SelectSeq(s.cards, LAMBDA c : c.note_id \notin Range(params.notes))
    IN  [state |-> [s EXCEPT !.notes = kept_notes,
                             !.cards = kept_cards,
                             !.next_note_id = FirstNoteId + Len(kept_notes),
                             !.next_card_id = FirstCardId + Len(kept_cards)],
         result |-> None]

delete_notes(s, params) ==
    LET RECURSIVE Loop(_, _)
        Loop(st, note_ids) ==
            IF note_ids = <<>> THEN st
            ELSE LET note_id == Head(note_ids)
                 IN  Loop([st EXCEPT
                             !.notes = SelectSeq(@, LAMBDA n : n.note_id # note_id),
                             !.cards = SelectSeq(@, LAMBDA c : c.note_id # note_id)],
                          Tail(note_ids))
    IN  [state |-> Loop(s, params.notes), result |-> None]

\* change_deck that moves the owning notes along with the cards.
change_deck_with_notes(s, params) ==
    LET card_ids  == params.cards
        deck_name == params.deck
        s1 == IF ~DictHas(s.decks, deck_name)
              THEN create_deck(s, [deck |-> deck_name]).state
              ELSE s
        Move(c) == [c EXCEPT !.deck_name = deck_name]
        owners == { s.cards[i].note_id : i \in { j \in 1..Len(s.cards) :
                                                   s.cards[j].card_id \in Range(card_ids) } }
    IN  [state |-> [s1 EXCEPT
                       !.cards = ForEachCard(@, card_ids, Move),
                       !.notes = [i \in 1..Len(@) |->
                                     IF @[i].note_id \in owners
                                     THEN [@[i] EXCEPT !.deck_name = deck_name]
                                     ELSE @[i]]],
         result |-> None]

\* change_deck that does not see to it that the deck exists.
change_deck_unregistered(s, params) ==
    [state |-> [s EXCEPT !.cards =
                    ForEachCard(@, params.cards,
                                LAMBDA c : [c EXCEPT !.deck_name = params.deck])],
     result |-> None]

change_deck(s, params) ==
    LET card_ids  == params.cards
        deck_name == params.deck
        s1 == IF ~DictHas(s.decks, deck_name)
              THEN create_deck(s, [deck |-> deck_name]).state
              ELSE s
        Move(c) == [c EXCEPT !.deck_name = deck_name]
    IN  [state |-> [s1 EXCEPT !.cards = ForEachCard(@, card_ids, Move)],
         result |-> None]

remove_tags(s, params) ==
    LET note_ids == params.notes
        tags_to_remove == Range(Split(params.tags))
        Strip(n) == [n EXCEPT !.tags = SelectSeq(@, LAMBDA t : t \notin tags_to_remove)]
    IN  [state |-> [s EXCEPT !.notes = ForEachNote(@, note_ids, Strip)],
         result |-> None]

\* forget_cards that leaves the lapse count alone.
forget_cards_keeps_lapses(s, params) ==
    LET Reset(c) == [c EXCEPT !.queue = 0, !.type = 0, !.interval = 0,
                              !.factor = 2500, !.due = 0]
    IN  [state |-> [s EXCEPT !.cards = ForEachCard(@, params.cards, Reset)],
         result |-> None]

forget_cards(s, params) ==
    LET Reset(c) == [c EXCEPT !.queue = 0, !.type = 0, !.interval = 0,
                              !.factor = 2500, !.lapses = 0, !.due = 0]
    IN  [state |-> [s EXCEPT !.cards = ForEachCard(@, params.cards, Reset)],
         result |-> None]

set_ease_factors(s, params) ==
    LET pairs == Zip(params.cards, params.easeFactors)
        RECURSIVE Loop(_, _, _)
        Loop(st, i, results) ==
            IF i > Len(pairs) THEN [state |-> st, result |-> results]
            ELSE LET card_id == pairs[i][1]
                     ease    == pairs[i][2]
                     SetEase(c) == [c EXCEPT !.factor = ease]
                 IN  IF card_id \in CardIds(st)
                     THEN Loop([st EXCEPT !.cards = ForEachCard(@, <<card_id>>, SetEase)],
                               i + 1, Append(results, TRUE))
                     ELSE Loop(st, i + 1, Append(results, FALSE))
    IN  Loop(s, 1, <<>>)

\* A handler that raises leaves "raised", the text of the exception, in
\* place of "result".
model_field_names(s, params) ==
    LET model_name == params.modelName
    IN  IF model_name \notin DOMAIN models
        THEN [state |-> s, raised |-> "Model not found: " \o model_name]
        ELSE [state |-> s, result |-> models[model_name]]

(* Test-setup helpers: the only way a card gets lapses, an interval or the *)
(* review queue.                                                           *)

\* The note and card that add_problem_card, add_due_card and
\* add_suspended_card all create, before the card's attributes are set.
HelperAdd(s, deck_name, label, tag) ==
    LET s0 == create_deck(s, [deck |-> deck_name]).state
        note_id == s0.next_note_id
        q == label \o " Q " \o ToString(note_id)
        a == label \o " A " \o ToString(note_id)
        note == MockNote(note_id, deck_name, "Basic",
                         << <<"Front", q>>, <<"Back", a>> >>, <<tag>>)
        card_id == s0.next_card_id
    IN  [s0 EXCEPT !.next_note_id = @ + 1,
                   !.notes = NotesSet(@, note),
                   !.next_card_id = @ + 1,
                   !.cards = CardsSet(@, MockCard(card_id, note_id, deck_name, q, a))]

add_problem_card(s, deck_name, low_ease, high_lapses) ==
    LET card_id == s.next_card_id
        Attrs(c) == [c EXCEPT !.factor = IF low_ease THEN LowEaseFactor ELSE DefaultFactor,
                              !.lapses = IF high_lapses THEN ProblemLapses ELSE 0,
                              !.interval = HelperInterval,
                              !.queue = QueueReview]
        s1 == HelperAdd(s, deck_name, "Problem", "problem-card")
    IN  [state |-> [s1 EXCEPT !.cards = ForEachCard(@, <<card_id>>, Attrs)],
         result |-> card_id]

add_due_card(s, deck_name) ==
    LET card_id == s.next_card_id
        Attrs(c) == [c EXCEPT !.factor = DefaultFactor, !.lapses = 0,
                              !.interval = HelperInterval,
                              !.queue = QueueReview, !.due = 0]
        s1 == HelperAdd(s, deck_name, "Due", "due-card")
    IN  [state |-> [s1 EXCEPT !.cards = ForEachCard(@, <<card_id>>, Attrs)],
         result |-> card_id]

add_suspended_card(s, deck_name) ==
    LET card_id == s.next_card_id
        Attrs(c) == [c EXCEPT !.suspended = TRUE]
        s1 == HelperAdd(s, deck_name, "Suspended", "suspended-card")
    IN  [state |-> [s1 EXCEPT !.cards = ForEachCard(@, <<card_id>>, Attrs)],
         result |-> card_id]

-----------------------------------------------------------------------------
(* The query matcher.                                                      *)
(*                                                                         *)
(* A query string is a sequence of lexical atoms.  An atom is the space    *)
(* " ", the double quote, one decimal digit, the dot ".", one of the       *)
(* keywords the matcher looks for ("deck:", "tag:", "prop:ease<",          *)
(* "prop:lapses>=", "is:suspended", "is:buried", "is:due"), or a word      *)
(* that holds no space, no quote and no part of a keyword.  With such      *)
(* atoms Python's substring test `kw in query` is      *)
(* membership of the atom kw, and a regular-expression search is a scan    *)
(* over atom positions.                                                    *)

Digits == <<"0", "1", "2", "3", "4", "5", "6", "7", "8", "9">>

IsDigit(a) == \E d \in 1..Len(Digits) : Digits[d] = a

DigitValue(a) == (CHOOSE d \in 1..Len(Digits) : Digits[d] = a) - 1

IsSpace(a) == a = " "

IsQuote(a) == a = "\""

\* str.lower() of one atom (the atoms of the model that hold upper case)
Lower(a) ==
    CASE a = "Default" -> "default"
      [] a = "Spanish" -> "spanish"
      [] a = "Verb"    -> "verb"
      [] a = "Noun"    -> "noun"
      [] OTHER -> a

\* query.lower()
LowerAll(q) == [i \in 1..Len(q) |-> Lower(q[i])]

\* the atoms of a captured group as one string
RECURSIVE Join(_)
Join(atoms) == IF atoms = <<>> THEN "" ELSE Head(atoms) \o Join(Tail(atoms))

\* kw in q
Contains(q, kw) == \E i \in 1..Len(q) : q[i] = kw

\* The last position of the longest run of atoms from position i on that
\* satisfy P (i - 1 when q[i] does not): a greedy P+ or P*.
RunEnd(q, i, P(_)) ==
    LET RECURSIVE Scan(_)
        Scan(j) == IF j <= Len(q) /\ P(q[j]) THEN Scan(j + 1) ELSE j - 1
    IN  Scan(i)

\* The leftmost position at which At(i) holds, 0 when there is none:
\* where re.search finds its match.
Search(q, At(_)) ==
    IF \E i \in 1..Len(q) : At(i)
    THEN CHOOSE i \in 1..Len(q) : At(i) /\ \A j \in 1..(i - 1) : ~At(j)
    ELSE 0

NotSpace(a) == ~IsSpace(a)
NotQuote(a) == ~IsQuote(a)

\* deck:"([^"]+)" at position i
DeckQuotedAt(q, i) ==
    /\ Lower(q[i]) = "deck:"
    /\ i + 1 <= Len(q) /\ IsQuote(q[i + 1])
    /\ RunEnd(q, i + 2, NotQuote) >= i + 2
    /\ RunEnd(q, i + 2, NotQuote) < Len(q)

\* deck:(\S+) at position i
DeckBareAt(q, i) ==
    /\ Lower(q[i]) = "deck:"
    /\ RunEnd(q, i + 1, NotSpace) >= i + 1

\* re.search(r'deck:"([^"]+)"|deck:(\S+)', query, re.IGNORECASE), then
\* group(1) or group(2): None, or the atoms of the captured deck name
DeckGroup(q) ==
    LET At(i) == DeckQuotedAt(q, i) \/ DeckBareAt(q, i)
        i == Search(q, At)
    IN  IF i = 0 THEN None
        ELSE IF DeckQuotedAt(q, i)
             THEN Some(SubSeq(q, i + 2, RunEnd(q, i + 2, NotQuote)))
             ELSE Some(SubSeq(q, i + 1, RunEnd(q, i + 1, NotSpace)))

\* re.search(r'tag:(\S+)', query, re.IGNORECASE).group(1)
TagGroup(q) ==
    LET At(i) == Lower(q[i]) = "tag:" /\ RunEnd(q, i + 1, NotSpace) >= i + 1
        i == Search(q, At)
    IN  IF i = 0 THEN None
        ELSE Some(SubSeq(q, i + 1, RunEnd(q, i + 1, NotSpace)))

\* int() of a run of digit atoms
RECURSIVE DigitsValue(_)
DigitsValue(ds) ==
    IF ds = <<>> THEN 0
    ELSE 10 * DigitsValue(SubSeq(ds, 1, Len(ds) - 1)) + DigitValue(ds[Len(ds)])

RECURSIVE Pow10(_)
Pow10(n) == IF n = 0 THEN 1 ELSE 10 * Pow10(n - 1)

\* re.search(r'prop:ease<(\d+\.?\d*)', query_lower): None, or the number
\* read as the pair <<all its digits as an integer, digits after the dot>>
EaseGroup(q) ==
    LET At(i) == q[i] = "prop:ease<" /\ RunEnd(q, i + 1, IsDigit) >= i + 1
        i == Search(q, At)
        e1 == RunEnd(q, i + 1, IsDigit)
        dot == e1 + 1 <= Len(q) /\ q[e1 + 1] = "."
        e2 == IF dot THEN RunEnd(q, e1 + 2, IsDigit) ELSE e1
        frac == IF dot THEN SubSeq(q, e1 + 2, e2) ELSE <<>>
    IN  IF i = 0 THEN None
        ELSE Some(<<DigitsValue(SubSeq(q, i + 1, e1) \o frac), Len(frac)>>)

\* re.search(r'prop:lapses>=(\d+)', query_lower): None, or int(group(1))
LapsesGroup(q) ==
    LET At(i) == q[i] = "prop:lapses>=" /\ RunEnd(q, i + 1, IsDigit) >= i + 1
        i == Search(q, At)
    IN  IF i = 0 THEN None
        ELSE Some(DigitsValue(SubSeq(q, i + 1, RunEnd(q, i + 1, IsDigit))))

\* EaseAtLeast with the boundary on the wrong side: ease > threshold.
EaseAbove(factor, th) == factor * Pow10(th[2]) > 1000 * th[1]

\* ease >= threshold, with ease = card.factor / 1000 and threshold the
\* float of the literal th = <<digits, places>>: compared exactly, as the
\* two floats compare for every literal short enough to be exact to
\* double precision
EaseAtLeast(factor, th) == factor * Pow10(th[2]) >= 1000 * th[1]

\* tag.lower() not in [t.lower() for t in note.tags]
TagMissing(group, note_tags) ==
    \A i \in 1..Len(note_tags) : Lower(note_tags[i]) # Join(LowerAll(group))

note_matches_query(note, query0) ==
    LET query == LowerAll(query0)
        deck_match == DeckGroup(query)
        tag_match  == TagGroup(query)
    IN  /\ ~( /\ Contains(query, "deck:")
              /\ deck_match # None
              /\ Lower(note.deck_name) # Join(LowerAll(deck_match[1])) )
        /\ ~( /\ Contains(query, "tag:")
              /\ tag_match # None
              /\ TagMissing(tag_match[1], note.tags) )

card_matches_query(s, card, query) ==
    LET query_lower == LowerAll(query)
        deck_match == DeckGroup(query)
        tag_match  == TagGroup(query)
        note       == NoteOf(s, card.note_id)
        ease_match == EaseGroup(query_lower)
        lapses_match == LapsesGroup(query_lower)
    IN  /\ ~( /\ Contains(query_lower, "deck:")
              /\ deck_match # None
              /\ Lower(card.deck_name) # Join(LowerAll(deck_match[1])) )
        /\ ~( /\ Contains(query_lower, "tag:")
              /\ tag_match # None
              /\ note # None
              /\ TagMissing(tag_match[1], note[1].tags) )
        /\ ~( /\ Contains(query_lower, "prop:ease<")
              /\ ease_match # None
              /\ EaseAtLeast(card.factor, ease_match[1]) )
        /\ ~( /\ Contains(query_lower, "prop:lapses>=")
              /\ lapses_match # None
              /\ card.lapses < lapses_match[1] )
        /\ ~( Contains(query_lower, "is:suspended") /\ ~card.suspended )
        /\ ~( Contains(query_lower, "is:buried") /\ ~card.buried )
        /\ ~( Contains(query_lower, "is:due")
              /\ (card.queue # 2 \/ card.due > 0) )

find_notes(s, params) ==
    LET hits == SelectSeq(s.notes, LAMBDA n : note_matches_query(n, params.query))
    IN  [state |-> s, result |-> [i \in 1..Len(hits) |-> hits[i].note_id]]

find_cards(s, params) ==
    LET hits == SelectSeq(s.cards, LAMBDA c : card_matches_query(s, c, params.query))
    IN  [state |-> s, result |-> [i \in 1..Len(hits) |-> hits[i].card_id]]

\* list(self.state.decks.keys())
deck_names(s, params) ==
    [state |-> s, result |-> [i \in 1..Len(s.decks) |-> s.decks[i][1]]]

\* The number of cards of the deck that are in the queue.
InQueue(s, deck_name, queue) ==
    Len(SelectSeq(s.cards, LAMBDA c : c.deck_name = deck_name /\ c.queue = queue))

\* The entry _get_deck_stats makes for a deck.
DeckStats(s, deck_name) ==
    [deck_id |-> DictGet(s.decks, deck_name, 0),
     name |-> deck_name,
     new_count |-> InQueue(s, deck_name, QueueNew),
     learn_count |-> InQueue(s, deck_name, QueueLearning),
     review_count |-> InQueue(s, deck_name, QueueReview),
     total_in_deck |-> Len(SelectSeq(s.cards, LAMBDA c : c.deck_name = deck_name))]

RECURSIVE get_deck_stats_loop(_, _, _)
get_deck_stats_loop(s, names, results) ==
    IF names = <<>> THEN results
    ELSE get_deck_stats_loop(s, Tail(names),
            IF DictHas(s.decks, Head(names))
            THEN DictSet(results, ToString(DictGet(s.decks, Head(names), 0)),
                         DeckStats(s, Head(names)))
            ELSE results)

get_deck_stats(s, params) ==
    [state |-> s, result |-> get_deck_stats_loop(s, params.decks, <<>>)]

\* The record _cards_info makes of a card.
CardInfo(s, card) ==
    [cardId |-> card.card_id, note |-> card.note_id, deckName |-> card.deck_name,
     question |-> card.question, answer |-> card.answer, factor |-> card.factor,
     interval |-> card.interval, lapses |-> card.lapses, queue |-> card.queue,
     type |-> card.type, due |-> card.due,
     modelName |-> IF NoteOf(s, card.note_id) # None
                   THEN NoteOf(s, card.note_id)[1].model_name ELSE "Basic"]

RECURSIVE cards_info_loop(_, _)
cards_info_loop(s, card_ids) ==
    IF card_ids = <<>> THEN <<>>
    ELSE (IF CardOf(s, Head(card_ids)) # None
          THEN <<CardInfo(s, CardOf(s, Head(card_ids))[1])>> ELSE <<>>)
         \o cards_info_loop(s, Tail(card_ids))

cards_info(s, params) ==
    [state |-> s, result |-> cards_info_loop(s, params.cards)]

-----------------------------------------------------------------------------
(* The dispatcher of the backend.                                          *)

\* The handlers table of _dispatch, for the actions the model has.
handlers ==
    {"createDeck", "modelFieldNames", "addNote", "addNotes", "canAddNotes",
     "findNotes", "findCards", "addTags", "suspend", "unsuspend",
     "updateNoteFields", "deleteNotes", "changeDeck", "removeTags",
     "forgetCards", "setEaseFactors", "cardsInfo", "deckNames",
     "getDeckStats"}

\* The keys each handler reads of params before it does anything else.
required(action) ==
    CASE action \in {"createDeck"} -> <<"deck">>
      [] action \in {"modelFieldNames"} -> <<"modelName">>
      [] action \in {"addNote", "updateNoteFields"} -> <<"note">>
      [] action \in {"addNotes", "canAddNotes", "deleteNotes"} -> <<"notes">>
      [] action \in {"findNotes", "findCards"} -> <<"query">>
      [] action \in {"addTags", "removeTags"} -> <<"notes", "tags">>
      [] action \in {"suspend", "unsuspend", "forgetCards", "cardsInfo"} -> <<"cards">>
      [] action \in {"changeDeck"} -> <<"cards", "deck">>
      [] action \in {"deckNames"} -> <<>>
      [] action \in {"getDeckStats"} -> <<"decks">>
      [] action \in {"setEaseFactors"} -> <<"cards", "easeFactors">>

\* handlers[action](params), for params that have the keys required.
handler(s, action, params) ==
    CASE action = "createDeck"       -> create_deck(s, params)
      [] action = "modelFieldNames"  -> model_field_names(s, params)
      [] action = "addNote"          -> add_note(s, params)
      [] action = "addNotes"         -> add_notes(s, params)
      [] action = "canAddNotes"      -> can_add_notes(s, params)
      [] action = "findNotes"        -> find_notes(s, params)
      [] action = "findCards"        -> find_cards(s, params)
      [] action = "addTags"          -> add_tags(s, params)
      [] action = "suspend"          -> suspend(s, params)
      [] action = "unsuspend"        -> unsuspend(s, params)
      [] action = "updateNoteFields" -> update_note_fields(s, params)
      [] action = "deleteNotes"      -> delete_notes(s, params)
      [] action = "changeDeck"       -> change_deck(s, params)
      [] action = "removeTags"       -> remove_tags(s, params)
      [] action = "forgetCards"      -> forget_cards(s, params)
      [] action = "setEaseFactors"   -> set_ease_factors(s, params)
      [] action = "cardsInfo"        -> cards_info(s, params)
      [] action = "deckNames"        -> deck_names(s, params)
      [] action = "getDeckStats"     -> get_deck_stats(s, params)

\* The (result, error) pair _dispatch makes of what a handler did.
Returned(out) ==
    IF "raised" \in DOMAIN out
    THEN [state |-> out.state, result |-> None, error |-> Some(out.raised)]
    ELSE [state |-> out.state, result |-> out.result, error |-> None]

\* _dispatch: the state the handler leaves, and the (result, error) pair.
dispatch(s, action, params) ==
    IF action \notin handlers
    THEN [state |-> s, result |-> None,
          error |-> Some("Unknown action: " \o action)]
    ELSE IF MissingKey(params, required(action)) # ""
    THEN Returned([state |-> s,
                   raised |-> KeyError(MissingKey(params, required(action)))])
    ELSE Returned(handler(s, action, params))

\* The JSON body _handle_request answers with.
JsonResponse(out) ==
    [state |-> out.state,
     response |-> [result |-> out.result, error |-> out.error]]

\* _handle_request that runs the handler on the state as it was built,
\* not on the state the earlier requests left.
handle_request_stale(s, data) ==
    JsonResponse(dispatch(MockAnkiState, data.action, data.params))

\* _handle_request: the state it leaves and the JSON body it answers with.
handle_request(s, data) ==
    JsonResponse(dispatch(s, data.action, data.params))

-----------------------------------------------------------------------------
(* The client: AnkiClient._invoke.                                         *)

\* httpx.Response.raise_for_status returns for a 2xx status only.
IsSuccess(status) == status \in HttpOk..HttpLastSuccess

\* bool(data.get("error")): None and the empty string are both false.
Truthy(error) == error # None /\ error[1] # ""

\* What _invoke does with a response: the exception it raises ("" for
\* none) and the value it returns or the exception's message.
invoke(status, data) ==
    IF ~IsSuccess(status)
    THEN [raised |-> "HTTPStatusError", value |-> None]
    ELSE IF Truthy(data.error)
         THEN [raised |-> "AnkiConnectError",
               value |-> Some("AnkiConnect error: " \o data.error[1])]
         ELSE [raised |-> "", value |-> data.result]

\* What _invoke makes of the backend's answer to a request.
Received(action, params, out) ==
    LET got == invoke(HttpOk, out.response)
    IN  [state |-> out.state, action |-> action, params |-> params,
         response |-> out.response, raised |-> got.raised, value |-> got.value]

\* One call of a client method against the backend: the request sent,
\* the state the backend is left in, its response and what _invoke did.
RoundTrip(s, action, params) ==
    Received(action, params,
             handle_request(s, [action |-> action, params |-> params]))

-----------------------------------------------------------------------------
(* The MCP server: the branches of call_tool that ask for confirmation.    *)
(* A tool call leaves the backend state, the client calls it made in       *)
(* order, and the kind of text it answers with.                            *)

\* arguments.get(key, default)
ArgGet(arguments, key, default) ==
    IF key \in DOMAIN arguments THEN arguments[key] ELSE default

\* The except clauses of call_tool, for a client call that raised.
ToolFailed(call, calls) ==
    [state |-> call.state, calls |-> Append(calls, call),
     text |-> IF call.raised = "AnkiConnectError"
              THEN "AnkiConnect error" ELSE "Error"]

\* The delete_notes branch after its client call.
Deleted(call) ==
    IF call.raised # "" THEN ToolFailed(call, <<>>)
    ELSE [state |-> call.state, calls |-> <<call>>, text |-> "Deleted"]

\* The delete_notes branch without its confirmation test.
tool_delete_notes_unconfirmed(s, arguments) ==
    Deleted(RoundTrip(s, "deleteNotes", [notes |-> arguments.note_ids]))

tool_delete_notes(s, arguments) ==
    LET note_ids == arguments.note_ids
        confirm  == ArgGet(arguments, "confirm", FALSE)
    IN  IF ~confirm
        THEN [state |-> s, calls |-> <<>>, text |-> "Deletion cancelled"]
        ELSE Deleted(RoundTrip(s, "deleteNotes", [notes |-> note_ids]))

\* The reset_card_progress branch after its forget_cards call.
Forgot(searched, call) ==
    IF call.raised # "" THEN ToolFailed(call, searched)
    ELSE [state |-> call.state, calls |-> Append(searched, call), text |-> "Reset"]

\* The reset_card_progress branch once card_ids is settled.
ResetCards(s, card_ids, confirm, searched) ==
    IF ~confirm
    THEN [state |-> s, calls |-> searched, text |-> "Reset cancelled"]
    ELSE Forgot(searched, RoundTrip(s, "forgetCards", [cards |-> card_ids]))

\* The reset_card_progress branch after its find_cards call.
ResetFound(confirm, found) ==
    IF found.raised # "" THEN ToolFailed(found, <<>>)
    ELSE IF found.value = <<>>
    THEN [state |-> found.state, calls |-> <<found>>, text |-> "No cards found"]
    ELSE ResetCards(found.state, found.value, confirm, <<found>>)

tool_reset_card_progress(s, arguments) ==
    LET card_ids == ArgGet(arguments, "card_ids", <<>>)
        query    == ArgGet(arguments, "query", <<>>)
        confirm  == ArgGet(arguments, "confirm", FALSE)
    IN  IF card_ids = <<>> /\ query = <<>>
        THEN [state |-> s, calls |-> <<>>,
              text |-> "Must provide card_ids or query"]
        ELSE IF query # <<>>
        THEN ResetFound(confirm, RoundTrip(s, "findCards", [query |-> query]))
        ELSE ResetCards(s, card_ids, confirm, <<>>)

(* The tools that search and then change what they found: suspend_cards,  *)
(* unsuspend_cards, move_cards and reset_card_progress, one client call at *)
(* a time.  A task is   *)
(* such a tool call between two client calls: the card ids it holds and    *)
(* the call it makes next.                                                 *)

Task(name, arguments) ==
    [name |-> name, arguments |-> arguments,
     card_ids |-> ArgGet(arguments, "card_ids", <<>>), pc |-> "start"]

\* The tool returns.
Return(s, calls, text) == [state |-> s, calls |-> calls, next |-> <<>>, text |-> text]

\* The tool goes on to the await of its next client call.
Await(call, task) ==
    [state |-> call.state, calls |-> <<call>>, next |-> <<task>>, text |-> ""]

\* After anki.suspend, anki.unsuspend or anki.change_deck.
Mutated(task, call) ==
    IF call.raised # "" THEN ToolFailed(call, <<>>) @@ [next |-> <<>>]
    ELSE Return(call.state, <<call>>,
                CASE task.name = "suspend_cards"   -> "Suspended"
                  [] task.name = "unsuspend_cards" -> "Unsuspended"
                  [] task.name = "move_cards"      -> "Moved"
                  [] task.name = "reset_card_progress" -> "Reset")

\* The backend action of the call that changes the cards.
Mutation(name) ==
    CASE name = "suspend_cards"       -> "suspend"
      [] name = "unsuspend_cards"     -> "unsuspend"
      [] name = "reset_card_progress" -> "forgetCards"
      [] name = "move_cards"          -> "changeDeck"

\* The call that changes the cards the task holds; reset_card_progress
\* makes it only when confirmed.
Mutate(s, task) ==
    IF task.name = "reset_card_progress" /\ ~ArgGet(task.arguments, "confirm", FALSE)
    THEN Return(s, <<>>, "Reset cancelled")
    ELSE Mutated(task,
            RoundTrip(s, Mutation(task.name),
                      IF task.name = "move_cards"
                      THEN [cards |-> task.card_ids,
                            deck |-> task.arguments.target_deck]
                      ELSE [cards |-> task.card_ids]))

\* After anki.create_deck of move_cards: AnkiConnectError is passed over.
CreatedDeck(task, call) ==
    IF call.raised \notin {"", "AnkiConnectError"}
    THEN ToolFailed(call, <<>>) @@ [next |-> <<>>]
    ELSE Await(call, [task EXCEPT !.pc = "mutate"])

\* After anki.find_cards.
Found(task, found) ==
    IF found.raised # "" THEN ToolFailed(found, <<>>) @@ [next |-> <<>>]
    ELSE IF found.value = <<>>
    THEN Return(found.state, <<found>>, "No cards found")
    ELSE Await(found, [task EXCEPT !.card_ids = found.value,
                                   !.pc = IF task.name = "move_cards"
                                          THEN "create_deck" ELSE "mutate"])

\* The next client call of a task that holds its card ids.
Proceed(s, task) ==
    IF task.name = "move_cards" /\ task.pc # "mutate"
    THEN CreatedDeck(task, RoundTrip(s, "createDeck",
                                     [deck |-> task.arguments.target_deck]))
    ELSE Mutate(s, task)

task_step(s, task) ==
    IF task.pc = "start" /\ task.card_ids = <<>> /\ "query" \notin DOMAIN task.arguments
    THEN Return(s, <<>>, "Must provide card_ids or query")
    ELSE IF task.pc = "start" /\ "query" \in DOMAIN task.arguments
    THEN Found(task, RoundTrip(s, "findCards", [query |-> task.arguments.query]))
    ELSE Proceed(s, task)

call_tool(s, name, arguments) ==
    CASE name = "delete_notes"        -> tool_delete_notes(s, arguments)
      [] name = "reset_card_progress" -> tool_reset_card_progress(s, arguments)
      [] OTHER -> [state |-> s, calls |-> <<>>, text |-> "Unknown tool"]

-----------------------------------------------------------------------------
(* Requests.                                                               *)

Install(s) ==
    /\ decks' = s.decks
    /\ notes' = s.notes
    /\ cards' = s.cards
    /\ tags' = s.tags
    /\ next_note_id' = s.next_note_id
    /\ next_card_id' = s.next_card_id
    /\ next_deck_id' = s.next_deck_id


\* No call of AnkiClient._invoke, and no tool call, took part in a step.
NoInvoke == [status |-> 0, data |-> <<>>, raised |-> "", value |-> <<>>]
NoTool == [name |-> "", arguments |-> <<>>, calls |-> <<>>, text |-> ""]

\* _dispatch for a handler that returned normally, on a request posted
\* straight to the backend.
Reply(action, params, out) ==
    /\ Install(out.state)
    /\ request' = [action |-> action, params |-> params]
    /\ response' = [result |-> out.result, error |-> None]
    /\ client' = NoInvoke
    /\ tool' = NoTool
    /\ UNCHANGED <<inflight, served, running, called>>

\* n more note ids fit in the model's bound.
IdsLeft(n) == next_note_id + n <= FirstNoteId + MaxNotes

\* A test-setup helper, which a test calls on the server object itself.
Called(action, params, out) ==
    /\ Install(out.state)
    /\ request' = [action |-> action, params |-> params]
    /\ response' = [result |-> out.result, error |-> None]
    /\ client' = NoInvoke
    /\ tool' = NoTool
    /\ UNCHANGED <<inflight, served, running, called>>

CreateDeck(deck) ==
    LET params == [deck |-> deck]
    IN  Reply("createDeck", params, create_deck(State, params))

AddNote(note_data) ==
    /\ IdsLeft(1)
    /\ LET params == [note |-> note_data]
       IN  Reply("addNote", params, add_note(State, params))

\* The batch is sent when the ids it consumes fit in the model's bound.
AddNotes(notes_in) ==
    LET params == [notes |-> notes_in]
        out    == add_notes(State, params)
    IN  /\ out.state.next_note_id <= FirstNoteId + MaxNotes
        /\ Reply("addNotes", params, out)

CanAddNotes(notes_in) ==
    LET params == [notes |-> notes_in]
    IN  Reply("canAddNotes", params, can_add_notes(State, params))

FindNotes(query) ==
    LET params == [query |-> query]
    IN  Reply("findNotes", params, find_notes(State, params))

FindCards(query) ==
    LET params == [query |-> query]
    IN  Reply("findCards", params, find_cards(State, params))

\* getDeckStats of every deck that deckNames lists, as get_collection_stats
\* asks for it.
GetDeckStats ==
    LET params == [decks |-> deck_names(State, <<>>).result]
    IN  /\ request.action # "getDeckStats"
        /\ Reply("getDeckStats", params, get_deck_stats(State, params))

CardsInfo(card_ids) ==
    LET params == [cards |-> card_ids]
    IN  Reply("cardsInfo", params, cards_info(State, params))

AddTags(note_ids, tags_str) ==
    /\ \A i \in 1..Len(notes) :
          Len(add_tags(State, [notes |-> note_ids, tags |-> tags_str])
                  .state.notes[i].tags) <= MaxTags
    /\ LET params == [notes |-> note_ids, tags |-> tags_str]
       IN  Reply("addTags", params, add_tags(State, params))

RemoveTags(note_ids, tags_str) ==
    LET params == [notes |-> note_ids, tags |-> tags_str]
    IN  Reply("removeTags", params, remove_tags(State, params))

Suspend(card_ids) ==
    LET params == [cards |-> card_ids]
    IN  Reply("suspend", params, suspend(State, params))

Unsuspend(card_ids) ==
    LET params == [cards |-> card_ids]
    IN  Reply("unsuspend", params, unsuspend(State, params))

UpdateNoteFields(note_id, fields) ==
    LET params == [note |-> [id |-> note_id, fields |-> fields]]
    IN  Reply("updateNoteFields", params, update_note_fields(State, params))

DeleteNotes(note_ids) ==
    LET params == [notes |-> note_ids]
    IN  Reply("deleteNotes", params, delete_notes(State, params))

ChangeDeck(card_ids, deck) ==
    LET params == [cards |-> card_ids, deck |-> deck]
    IN  Reply("changeDeck", params, change_deck(State, params))

ForgetCards(card_ids) ==
    LET params == [cards |-> card_ids]
    IN  Reply("forgetCards", params, forget_cards(State, params))

SetEaseFactors(card_ids, ease_factors) ==
    LET params == [cards |-> card_ids, easeFactors |-> ease_factors]
    IN  Reply("setEaseFactors", params, set_ease_factors(State, params))

AddProblemCard(deck, low_ease, high_lapses) ==
    /\ IdsLeft(1)
    /\ Called("add_problem_card",
              [deck_name |-> deck, low_ease |-> low_ease, high_lapses |-> high_lapses],
              add_problem_card(State, deck, low_ease, high_lapses))

AddDueCard(deck) ==
    /\ IdsLeft(1)
    /\ Called("add_due_card", [deck_name |-> deck], add_due_card(State, deck))

AddSuspendedCard(deck) ==
    /\ IdsLeft(1)
    /\ Called("add_suspended_card", [deck_name |-> deck],
              add_suspended_card(State, deck))

\* The state keeps to the model's bounds on ids and on tag lists.
WithinBounds(s) ==
    /\ s.next_note_id <= FirstNoteId + MaxNotes
    /\ \A i \in 1..Len(s.notes) : Len(s.notes[i].tags) <= MaxTags

\* The step of a client call that made the given round trip.
Invoked(call) ==
    /\ WithinBounds(call.state)
    /\ Install(call.state)
    /\ request' = [action |-> call.action, params |-> call.params]
    /\ response' = call.response
    /\ client' = [status |-> HttpOk, data |-> call.response,
                  raised |-> call.raised, value |-> call.value]
    /\ tool' = NoTool
    /\ UNCHANGED <<inflight, served, running, called>>

\* _invoke against the backend: the request, the handler, the response
\* with status 200, and what _invoke makes of it.
Invoke(action, params) == Invoked(RoundTrip(State, action, params))

\* _invoke against a server that is not this backend and answers with
\* the given status and body.
InvokeAnswered(status, data) ==
    LET got == invoke(status, data)
    IN  /\ client' = [status |-> status, data |-> data,
                      raised |-> got.raised, value |-> got.value]
        /\ tool' = NoTool
        /\ UNCHANGED <<decks, notes, cards, tags, next_note_id, next_card_id,
                       next_deck_id, request, response, inflight, served, running,
                   called>>

\* The step of a tool call that did what out says.
Told(name, arguments, out) ==
    LET last == out.calls[Len(out.calls)]
    IN  /\ Install(out.state)
        /\ tool' = [name |-> name, arguments |-> arguments,
                    calls |-> [i \in 1..Len(out.calls) |-> out.calls[i].action],
                    text |-> out.text]
        /\ IF out.calls = <<>>
           THEN /\ client' = NoInvoke
                /\ UNCHANGED <<request, response>>
           ELSE /\ request' = [action |-> last.action, params |-> last.params]
                /\ response' = last.response
                /\ client' = [status |-> HttpOk, data |-> last.response,
                              raised |-> last.raised, value |-> last.value]
        /\ UNCHANGED <<inflight, served>>

\* A tool call, with every client call it makes and every request the
\* backend handles for it.
ToolCall(name, arguments) ==
    /\ Told(name, arguments, call_tool(State, name, arguments))
    /\ UNCHANGED <<running, called>>

(* Tool calls as coroutines.  call_tool is a coroutine that awaits each    *)
(* client call; nothing in the server keeps a second tool call from        *)
(* running while the first is suspended at an await.                       *)

\* The MCP server receives a tool call and creates its coroutine.
Begin(name, arguments) ==
    /\ Len(running) < MaxRunning
    /\ running' = Append(running, Task(name, arguments))
    /\ tool' = [name |-> name, arguments |-> arguments, calls |-> <<>>, text |-> ""]
    /\ UNCHANGED <<decks, notes, cards, tags, next_note_id, next_card_id,
                   next_deck_id, request, response, client, inflight, served,
                   called>>

\* The step of a coroutine that did what out says.
Resumed(i, task, out) ==
    /\ Told(task.name, task.arguments, out)
    /\ running' = [k \in 1..(Len(running) - 1 + Len(out.next)) |->
                      IF k < i THEN running[k]
                      ELSE IF k = i /\ out.next # <<>> THEN out.next[1]
                      ELSE running[k + 1 - Len(out.next)]]
    /\ UNCHANGED called

\* The i-th suspended tool call runs through its next client call, to
\* its next await or to its return.
Resume(i) ==
    /\ i \in 1..Len(running)
    /\ Resumed(i, running[i], task_step(State, running[i]))

(* Requests in flight.  _handle_request is a coroutine: it is suspended    *)
(* at `await request.json()` and from there runs to its return without     *)
(* another await.                                                          *)

\* A request reaches the backend: its coroutine starts and awaits the body.
Arrive(data) ==
    /\ Len(inflight) < MaxInFlight
    /\ Len(inflight) + Len(served) < MaxServed
    /\ inflight' = Append(inflight,
                          [id |-> Len(inflight) + Len(served) + 1, data |-> data])
    /\ UNCHANGED <<decks, notes, cards, tags, next_note_id, next_card_id,
                   next_deck_id, request, response, client, tool, served, running,
                   called>>

\* The coroutine of the i-th request in flight resumes with its body,
\* dispatches and answers.
Answer(i, req, out) ==
    /\ WithinBounds(out.state)
    /\ Install(out.state)
    /\ request' = [action |-> req.data.action, params |-> req.data.params]
    /\ response' = out.response
    /\ served' = Append(served, [id |-> req.id, data |-> req.data,
                                 response |-> out.response])
    /\ inflight' = [k \in 1..(Len(inflight) - 1) |->
                       IF k < i THEN inflight[k] ELSE inflight[k + 1]]
    /\ client' = NoInvoke
    /\ tool' = NoTool
    /\ UNCHANGED <<running, called>>

Handle(i) ==
    /\ i \in 1..Len(inflight)
    /\ Answer(i, inflight[i], handle_request(State, inflight[i].data))

\* No function of spanish.py was called.
NoCall == [function |-> "", args |-> <<>>, result |-> <<>>]

Init ==
    /\ decks = MockAnkiState.decks
    /\ notes = MockAnkiState.notes
    /\ cards = MockAnkiState.cards
    /\ tags = MockAnkiState.tags
    /\ next_note_id = MockAnkiState.next_note_id
    /\ next_card_id = MockAnkiState.next_card_id
    /\ next_deck_id = MockAnkiState.next_deck_id
    /\ request = [action |-> "", params |-> <<>>]
    /\ response = [result |-> None, error |-> None]
    /\ client = NoInvoke
    /\ tool = NoTool
    /\ inflight = <<>>
    /\ served = <<>>
    /\ running = <<>>
    /\ called = NoCall

-----------------------------------------------------------------------------
(* The requests the model sends.                                           *)

DeckNames == {"Default", "Spanish"}

\* An id no note and no card ever has.
UnknownId == FirstNoteId - 1

IdInputs == (FirstNoteId..(FirstNoteId + MaxNotes - 1)) \cup {UnknownId}

\* Lists of one id, and of two.
IdSingles == { <<a>> : a \in IdInputs }
IdLists == IdSingles \cup { <<a, b>> : a, b \in IdInputs }

\* A note of a request, with a "tags" key and without one.
NoteData(deck, model, fields, tgs) ==
    [deckName |-> deck, modelName |-> model, fields |-> fields, tags |-> tgs]

NoteDataNoTags(deck, model, fields) ==
    [deckName |-> deck, modelName |-> model, fields |-> fields]

BasicHola(deck) ==
    NoteData(deck, "Basic", << <<"Front", "hola">>, <<"Back", "hello">> >>, <<"verb">>)

\* The same first field as BasicHola, and no "tags" key.
BasicHolaBye(deck) ==
    NoteDataNoTags(deck, "Basic", << <<"Front", "hola">>, <<"Back", "bye">> >>)

ClozeAdios(deck) ==
    NoteData(deck, "Cloze", << <<"Text", "adios">>, <<"Extra", "x">> >>, <<"Verb", "noun">>)

\* A note without fields: its first-field value is the empty string.
NoFields(deck) == NoteData(deck, "Basic", <<>>, <<>>)

NoteInputs ==
    { BasicHola(d) : d \in DeckNames } \cup { BasicHolaBye(d) : d \in DeckNames }
    \cup { ClozeAdios(d) : d \in DeckNames } \cup { NoFields("Default") }

FieldInputs ==
    { << <<"Front", "adios">> >>,
      << <<"Text", "hola">>, <<"Back", "si">> >> }

\* The notes and the batch the smaller specifications add.
HolaDefault == BasicHola("Default")
AdiosDefault == ClozeAdios("Default")
AdiosSpanish == ClozeAdios("Spanish")
HolaBatch == << HolaDefault, BasicHolaBye("Default") >>

\* A batch whose first note is a duplicate once HolaDefault exists.
DupFirstBatch == << HolaDefault, AdiosSpanish >>

BatchInputs == { HolaBatch, << AdiosSpanish, HolaDefault >>, DupFirstBatch }

\* The batches canAddNotes is asked about.
AdiosHolaBatch == << AdiosDefault, HolaDefault >>
ProbeInputs == BatchInputs \cup { AdiosHolaBatch }

EaseLists == { <<2000>>, <<1500, 3000>>, <<>> }

(* Query tokens: the text of each, and what section 4.1 of the            *)
(* specification says it asks for (kind, with its name or number).         *)
Tok(text, kind, name, num) == [text |-> text, kind |-> kind, name |-> name, num |-> num]

SupportedTokens ==
    { Tok(<<"deck:", "\"", "Spanish", "\"">>, "deck", "spanish", 0),
      Tok(<<"deck:", "default">>, "deck", "default", 0),
      Tok(<<"tag:", "verb">>, "tag", "verb", 0),
      Tok(<<"tag:", "Noun">>, "tag", "noun", 0),
      Tok(<<"prop:ease<", "2", ".", "5">>, "ease", "", 2500),
      Tok(<<"prop:lapses>=", "4">>, "lapses", "", 4),
      Tok(<<"is:suspended">>, "suspended", "", 0),
      Tok(<<"is:buried">>, "buried", "", 0),
      Tok(<<"is:due">>, "due", "", 0) }

\* Tokens that are none of the supported predicates.
OtherTokens ==
    { Tok(<<"is:new">>, "other", "", 0),
      Tok(<<"prop:ivl>=", "2", "1">>, "other", "", 0),
      Tok(<<"-", "is:suspended">>, "other", "", 0),
      Tok(<<"-", "tag:", "verb">>, "other", "", 0) }

Tokens == SupportedTokens \cup OtherTokens

\* Queries of no token, of one and of two.
TokenLists == {<<>>} \cup { <<a>> : a \in Tokens } \cup { <<a, b>> : a, b \in Tokens }

\* The tokens find_notes is asked about: decks, tags and unsupported ones.
NoteTokens == { a \in Tokens : a.kind \in {"deck", "tag", "other"} }

NoteTokenLists ==
    {<<>>} \cup { <<a>> : a \in NoteTokens } \cup { <<a, b>> : a, b \in NoteTokens }

\* The query string of a list of tokens: their texts, a space between them.
RECURSIVE QueryText(_)
QueryText(ts) ==
    IF ts = <<>> THEN <<>>
    ELSE IF Len(ts) = 1 THEN ts[1].text
    ELSE ts[1].text \o <<" ">> \o QueryText(Tail(ts))

\* The decimal digits of n.
RECURSIVE Decimal(_)
Decimal(n) == IF n < 10 THEN <<Digits[n + 1]>> ELSE Append(Decimal(n \div 10), Digits[(n % 10) + 1])

\* Largest N of the queries prop:ease<N the model sends.
MaxEase == 10

EaseQuery(n) == <<"prop:ease<">> \o Decimal(n)

\* The calls the client makes, as <<action, params>>.
ClientCalls ==
    { <<"addNote", [note |-> HolaDefault]>>,
      <<"addNote", [note |-> AdiosSpanish]>>,
      <<"addTags", [notes |-> <<FirstNoteId>>, tags |-> <<"noun">>]>>,
      <<"modelFieldNames", [modelName |-> "Basic"]>>,
      <<"modelFieldNames", [modelName |-> "Nope"]>>,
      <<"bogus", [query |-> <<>>]>> }
    \cup { <<"deleteNotes", [notes |-> ids]>> : ids \in IdLists }

\* A note without the key deckName.
NoDeckName == [modelName |-> "Basic", tags |-> <<>>,
               fields |-> << <<"Front", "si">>, <<"Back", "yes">> >>]
NoParams == [x \in {} |-> TRUE]
AdiosThenNoDeckName == <<AdiosDefault, NoDeckName>>
NoDeckNameThenAdios == <<NoDeckName, AdiosDefault>>
HolaThenNoDeckName == <<HolaDefault, NoDeckName>>

\* Requests the backend answers with an error, among requests it serves.
ErrorCalls ==
    { <<"addNote", [note |-> HolaDefault]>>,
      <<"addNote", [note |-> NoDeckName]>>,
      <<"addNote", NoParams>>,
      <<"addNotes", [notes |-> AdiosThenNoDeckName]>>,
      <<"addNotes", [notes |-> NoDeckNameThenAdios]>>,
      <<"addNotes", NoParams>>,
      <<"canAddNotes", [notes |-> HolaThenNoDeckName]>>,
      <<"addTags", [notes |-> <<FirstNoteId>>]>>,
      <<"addTags", [notes |-> <<FirstNoteId>>, tags |-> <<"noun">>]>>,
      <<"deleteNotes", [notes |-> <<FirstNoteId>>]>>,
      <<"deleteNotes", [notes |-> <<FirstNoteId + 1>>]>>,
      <<"changeDeck", [cards |-> <<FirstCardId>>]>>,
      <<"changeDeck", [cards |-> <<FirstCardId>>, deck |-> "Spanish"]>>,
      <<"modelFieldNames", [modelName |-> "Nope"]>>,
      <<"bogus", NoParams>> }

\* The bodies a server answers with.
Bodies ==
    { [result |-> r, error |-> e] :
        r \in {None, Some(FirstNoteId)},
        e \in {None, Some(""), Some("collection is not available")} }

Statuses == {HttpOk, HttpNotFound, HttpServerError}

\* The confirm argument: absent, false and true.
Unconfirmed == { [x \in {} |-> TRUE], [confirm |-> FALSE] }
Confirmations == Unconfirmed \cup { [confirm |-> TRUE] }

\* Two records merged into one; their keys are disjoint.
Merge(a, b) ==
    [k \in DOMAIN a \cup DOMAIN b |-> IF k \in DOMAIN a THEN a[k] ELSE b[k]]

\* The tool calls the model makes, as <<name, arguments>>.
ToolCalls ==
    { <<"delete_notes", Merge([note_ids |-> ids], c)>> :
        ids \in {<<FirstNoteId>>, <<FirstNoteId + 1, UnknownId>>}, c \in Confirmations }
    \cup
    { <<"reset_card_progress", Merge(a, c)>> :
        a \in { [card_ids |-> <<FirstCardId>>],
                [query |-> <<"prop:lapses>=", "3">>],
                [query |-> <<"deck:", "spanish">>],
                [x \in {} |-> TRUE] },
        c \in Confirmations }
    \cup { <<"delete_everything", [confirm |-> TRUE]>> }

\* The requests that are sent while others are in flight.
Arrivals ==
    { [action |-> "addNote", params |-> [note |-> HolaDefault]],
      [action |-> "addNote", params |-> [note |-> BasicHolaBye("Default")]],
      [action |-> "deleteNotes", params |-> [notes |-> <<FirstNoteId>>]],
      [action |-> "addTags", params |-> [notes |-> <<FirstNoteId>>, tags |-> <<"noun">>]],
      [action |-> "findNotes", params |-> [query |-> <<"tag:", "noun">>]] }

\* The tool calls that run as coroutines, as <<name, arguments>>.
TaskCalls ==
    { <<"suspend_cards", [query |-> <<"deck:", "default">>]>>,
      <<"suspend_cards", [card_ids |-> <<FirstCardId>>]>>,
      <<"suspend_cards", [x \in {} |-> TRUE]>>,
      <<"unsuspend_cards", [query |-> <<"is:suspended">>]>>,
      <<"move_cards", [query |-> <<"deck:", "default">>, target_deck |-> "Spanish"]>>,
      <<"reset_card_progress", [query |-> <<"deck:", "default">>, confirm |-> TRUE]>>,
      <<"reset_card_progress", [query |-> <<"deck:", "default">>]>>,
      <<"move_cards", [card_ids |-> <<FirstCardId>>, target_deck |-> "Default"]>> }

(* Every mutating operation, on few inputs.                                *)
Next ==
    \/ \E d \in DeckNames : CreateDeck(d)
    \/ AddNote(HolaDefault)
    \/ AddNote(AdiosDefault)
    \/ AddNotes(HolaBatch)
    \/ \E id \in IdInputs : UpdateNoteFields(id, << <<"Front", "adios">> >>)
    \/ \E ids \in IdLists : DeleteNotes(ids)
    \/ \E ids \in IdSingles : ChangeDeck(ids, "Spanish")
    \/ \E ids \in IdSingles : AddTags(ids, <<"verb">>)
    \/ \E ids \in IdSingles : RemoveTags(ids, <<"verb">>)
    \/ \E ids \in IdSingles : Suspend(ids)
    \/ \E ids \in IdSingles : Unsuspend(ids)
    \/ \E ids \in IdSingles : ForgetCards(ids)
    \/ \E ids \in IdSingles : SetEaseFactors(ids, <<2000>>)

Spec == Init /\ [][Next]_vars

(* Notes: adding, updating and deleting them.                              *)
NextNotes ==
    \/ \E n \in NoteInputs : AddNote(n)
    \/ \E ns \in BatchInputs : AddNotes(ns)
    \/ \E id \in IdInputs, f \in FieldInputs : UpdateNoteFields(id, f)
    \/ \E ids \in IdLists : DeleteNotes(ids)

SpecNotes == Init /\ [][NextNotes]_vars

(* Batches: asking whether notes can be added, and adding them.            *)
NextBatch ==
    \/ AddNote(HolaDefault)
    \/ AddNote(AdiosSpanish)
    \/ \E ns \in BatchInputs : AddNotes(ns)
    \/ \E ids \in IdSingles : DeleteNotes(ids)
    \/ \E ns \in ProbeInputs : CanAddNotes(ns)

SpecBatch == Init /\ [][NextBatch]_vars

(* Decks and what getDeckStats counts in them.                             *)
NextStats ==
    \/ \E d \in DeckNames : CreateDeck(d)
    \/ AddNote(HolaDefault)
    \/ AddNote(AdiosSpanish)
    \/ AddProblemCard("Spanish", TRUE, TRUE)
    \/ \E ids \in IdSingles, d \in DeckNames : ChangeDeck(ids, d)
    \/ \E ids \in IdSingles : DeleteNotes(ids)
    \/ GetDeckStats

SpecStats == Init /\ [][NextStats]_vars

(* Notes and the decks of their cards.                                     *)
NextDecks ==
    \/ NextNotes
    \/ \E ids \in IdSingles, d \in DeckNames : ChangeDeck(ids, d)

SpecDecks == Init /\ [][NextDecks]_vars

(* Cards: moving them between decks.                                       *)
NextMove ==
    \/ AddNote(HolaDefault)
    \/ AddProblemCard("Default", TRUE, TRUE)
    \/ AddSuspendedCard("Spanish")
    \/ \E ids \in IdLists, d \in DeckNames : ChangeDeck(ids, d)

SpecMove == Init /\ [][NextMove]_vars

(* Cards: rescheduling them.                                               *)
NextSched ==
    \/ AddNote(HolaDefault)
    \/ \E low, high \in BOOLEAN : AddProblemCard("Default", low, high)
    \/ AddSuspendedCard("Default")
    \/ \E ids \in IdLists : ForgetCards(ids)
    \/ \E ids \in IdLists, es \in EaseLists : SetEaseFactors(ids, es)

SpecSched == Init /\ [][NextSched]_vars

(* Cards: what cardsInfo tells of them.                                    *)
NextInfo ==
    \/ AddNote(HolaDefault)
    \/ \E low, high \in BOOLEAN : AddProblemCard("Default", low, high)
    \/ AddSuspendedCard("Default")
    \/ \E ids \in IdLists : ForgetCards(ids)
    \/ \E ids \in IdLists : CardsInfo(ids)

SpecInfo == Init /\ [][NextInfo]_vars

(* Queries over cards the test helpers and setEaseFactors have shaped.     *)
(* A query changes no state, so the model sends one only as the first      *)
(* request after a state change: every state still meets every query.      *)
Changed == request.action \notin {"findCards", "findNotes"}

NextQuery ==
    \/ AddNote(HolaDefault)
    \/ AddNote(AdiosSpanish)
    \/ \E low, high \in BOOLEAN : AddProblemCard("Default", low, high)
    \/ AddSuspendedCard("Spanish")
    \/ \E ids \in IdSingles : SetEaseFactors(ids, <<2000>>)
    \/ \E ts \in TokenLists : Changed /\ FindCards(QueryText(ts))
    \/ \E n \in 0..MaxEase : Changed /\ FindCards(EaseQuery(n))
    \/ \E ts \in NoteTokenLists : Changed /\ FindNotes(QueryText(ts))

SpecQuery == Init /\ [][NextQuery]_vars

(* The client, against this backend and against others.                   *)
NextClient ==
    \/ \E c \in ClientCalls : Invoke(c[1], c[2])
    \/ \E st \in Statuses, d \in Bodies : InvokeAnswered(st, d)

SpecClient == Init /\ [][NextClient]_vars

(* Requests that the backend answers with an error.                        *)
NextErrors == \E c \in ErrorCalls : Invoke(c[1], c[2])

SpecErrors == Init /\ [][NextErrors]_vars

(* The tools that ask for confirmation, over a backend the tests set up.   *)
NextTools ==
    \/ AddNote(HolaDefault)
    \/ AddProblemCard("Default", TRUE, TRUE)
    \/ \E c \in ToolCalls : ToolCall(c[1], c[2])

SpecTools == Init /\ [][NextTools]_vars

(* Several requests in flight at the backend.                              *)
NextInFlight ==
    \/ \E data \in Arrivals : Arrive(data)
    \/ \E i \in 1..MaxInFlight : Handle(i)

SpecInFlight == Init /\ [][NextInFlight]_vars

(* Tool calls that overlap.  The collection changes through tool calls     *)
(* only once the first of them has arrived.                                *)
Idle == running = <<>>

NextTasks ==
    \/ Idle /\ AddNote(HolaDefault)
    \/ Idle /\ AddNote(AdiosSpanish)
    \/ \E c \in TaskCalls : Begin(c[1], c[2])
    \/ \E i \in 1..MaxRunning : Resume(i)

SpecTasks == Init /\ [][NextTasks]_vars

-----------------------------------------------------------------------------
(* spanish.py: card templating.  A Python string is the sequence of its    *)
(* characters.                                                             *)

\* The parts of speech suggest_tags knows.
PartsOfSpeech == {"verb", "noun", "adjective", "adverb", "phrase", "expression"}

\* str.strip(): without the whitespace at both ends.
RECURSIVE lstrip(_)
lstrip(str) ==
    IF str # <<>> /\ Head(str) = " " THEN lstrip(Tail(str)) ELSE str

RECURSIVE rstrip(_)
rstrip(str) ==
    IF str # <<>> /\ str[Len(str)] = " "
    THEN rstrip(SubSeq(str, 1, Len(str) - 1)) ELSE str

strip(str) == rstrip(lstrip(str))

\* The pattern re.escape(p) matches in string at position pos.
re_match(pattern, string, pos) ==
    /\ pos + Len(pattern) - 1 <= Len(string)
    /\ SubSeq(string, pos, pos + Len(pattern) - 1) = pattern

\* The scan of re.sub for the pattern from pos on, right to left: the
\* position of the last match, 0 when there is none.
RECURSIVE re_search_last(_, _, _)
re_search_last(pattern, string, pos) ==
    IF pos > Len(string) + 1 THEN 0
    ELSE LET later == re_search_last(pattern, string, pos + 1)
         IN  IF later # 0 THEN later
             ELSE IF re_match(pattern, string, pos) THEN pos ELSE 0

\* The scan of re.sub for the pattern from pos on, left to right: the
\* position of the first match, 0 when there is none.
RECURSIVE re_search(_, _, _)
re_search(pattern, string, pos) ==
    IF pos > Len(string) + 1 THEN 0
    ELSE IF re_match(pattern, string, pos) THEN pos
    ELSE re_search(pattern, string, pos + 1)

ClozeOpen == <<"{", "{", "c", "1", ":", ":">>
ClozeClose == <<"}", "}">>

\* re.sub(f"({pattern})", r"{{c1::\1}}", string, count=1) with the match at.
re_sub(pattern, string, at) ==
    IF at = 0 THEN string
    ELSE SubSeq(string, 1, at - 1) \o ClozeOpen
         \o SubSeq(string, at, at + Len(pattern) - 1) \o ClozeClose
         \o SubSeq(string, at + Len(pattern), Len(string))

format_sentence_cloze(spanish, target_word) ==
    re_sub(strip(target_word), strip(spanish),
           re_search(strip(target_word), strip(spanish), 1))

\* A call of format_sentence_cloze with the arguments drawn.
FormatSentenceCloze ==
    /\ called.function = ""
    /\ called' = [called EXCEPT
                     !.function = "format_sentence_cloze",
                     !.result = format_sentence_cloze(called.args[1], called.args[2])]
    /\ UNCHANGED <<decks, notes, cards, tags, next_note_id, next_card_id,
                   next_deck_id, request, response, client, tool, inflight,
                   served, running>>

\* str.lower(), for the letters the words are made of.
lower(str) ==
    [i \in 1..Len(str) |->
        CASE str[i] = "A" -> "a"
          [] str[i] = "R" -> "r"
          [] OTHER -> str[i]]

\* str.endswith(suffix)
endswith(str, suffix) ==
    /\ Len(suffix) <= Len(str)
    /\ SubSeq(str, Len(str) - Len(suffix) + 1, Len(str)) = suffix

\* The verb-specific tags suggest_tags adds for pos 'verb'.
verb_tags(word_lower) ==
    (IF endswith(word_lower, <<"a", "r">>) THEN <<"verb-ar">>
     ELSE IF endswith(word_lower, <<"e", "r">>) THEN <<"verb-er">>
     ELSE IF endswith(word_lower, <<"i", "r">>) THEN <<"verb-ir">>
     ELSE <<>>)
    \o (IF endswith(word_lower, <<"s", "e">>) THEN <<"reflexive">> ELSE <<>>)

\* pos and additional_tags are None (<<>>) or hold a value.
suggest_tags(word, pos, additional_tags) ==
    (IF pos # None /\ pos[1] # "" /\ Lower(pos[1]) \in PartsOfSpeech
     THEN <<Lower(pos[1])>>
          \o (IF Lower(pos[1]) = "verb" THEN verb_tags(lower(word)) ELSE <<>>)
     ELSE <<>>)
    \o (IF additional_tags # None THEN additional_tags[1] ELSE <<>>)

get_verb_type(verb) ==
    LET verb_lower == strip(lower(verb))
    IN  IF endswith(verb_lower, <<"a", "r", "s", "e">>) \/ endswith(verb_lower, <<"a", "r">>)
        THEN Some("ar")
        ELSE IF endswith(verb_lower, <<"e", "r", "s", "e">>) \/ endswith(verb_lower, <<"e", "r">>)
        THEN Some("er")
        ELSE IF endswith(verb_lower, <<"i", "r", "s", "e">>) \/ endswith(verb_lower, <<"i", "r">>)
        THEN Some("ir")
        ELSE None

is_reflexive_verb(verb) == endswith(strip(lower(verb)), <<"s", "e">>)

\* A call of suggest_tags with the arguments drawn.
SuggestTags ==
    /\ called.function = ""
    /\ called' = [called EXCEPT
                     !.function = "suggest_tags",
                     !.result = suggest_tags(called.args[1], called.args[2],
                                             called.args[3])]
    /\ UNCHANGED <<decks, notes, cards, tags, next_note_id, next_card_id,
                   next_deck_id, request, response, client, tool, inflight,
                   served, running>>

\* The characters of the words: those of the endings, one in upper case,
\* and whitespace.
Letters == {"a", "e", "i", "r", "s", "R", " "}

Words == UNION { [1..k -> Letters] : k \in 0..MaxWord }

PosInputs == { None, Some("verb"), Some("Verb"), Some("noun") }

ExtraInputs == { None, Some(<<"freq-high">>) }

InitTags ==
    /\ Init!1 /\ Init!2 /\ Init!3 /\ Init!4 /\ Init!5 /\ Init!6 /\ Init!7
    /\ Init!8 /\ Init!9 /\ Init!10 /\ Init!11 /\ Init!12 /\ Init!13 /\ Init!14
    /\ called \in [function : {""},
                    args : Words \X PosInputs \X ExtraInputs,
                    result : {<<>>}]

NextTags == SuggestTags

SpecTags == InitTags /\ [][NextTags]_vars

\* The characters of the sentences: two that differ in case only, and
\* whitespace.
Chars == {"a", "A", " "}

\* The strings over Chars of length up to n.
Strings(n) == UNION { [1..k -> Chars] : k \in 0..n }

InitCloze ==
    /\ Init!1 /\ Init!2 /\ Init!3 /\ Init!4 /\ Init!5 /\ Init!6 /\ Init!7
    /\ Init!8 /\ Init!9 /\ Init!10 /\ Init!11 /\ Init!12 /\ Init!13 /\ Init!14
    /\ called \in [function : {""},
                    args : Strings(MaxSentence) \X Strings(MaxTarget),
                    result : {<<>>}]

NextCloze == FormatSentenceCloze

SpecCloze == InitCloze /\ [][NextCloze]_vars

-----------------------------------------------------------------------------
(* Properties.                                                             *)

Backend == <<decks, notes, cards, tags, next_note_id, next_card_id, next_deck_id>>

\* The value of a note's first field, "" for a note without fields.
FirstFieldOf(fields) == IF Len(fields) = 0 THEN "" ELSE fields[1][2]

IdsOfCards(cs) == [i \in 1..Len(cs) |-> cs[i].card_id]

\* C1: addNote returns no id exactly when an existing note has the same
\* deck name and the same first-field value, and then leaves notes, cards,
\* decks, tags and the id counters as they were; otherwise it returns the
\* id of a note that did not exist before and exists now.
AddNoteRejectsExactlyDuplicates ==
    [][request'.action = "addNote" =>
        LET n == request'.params.note
            dup == \E i \in 1..Len(notes) :
                      /\ notes[i].deck_name = n.deckName
                      /\ FirstFieldOf(notes[i].fields) = FirstFieldOf(n.fields)
        IN  IF dup
            THEN /\ response'.result = None
                 /\ Backend' = Backend
            ELSE /\ response'.result # None
                 /\ response'.result[1] \notin NoteIds(State)
                 /\ \E i \in 1..Len(notes') : notes'[i].note_id = response'.result[1]
    ]_vars

\* A duplicate was rejected: the request's deck holds a note with the
\* request's first-field value.
AddNoteDuplicateRejected ==
    /\ request.action = "addNote"
    /\ response.result = None
    /\ \E i \in 1..Len(notes) :
          /\ notes[i].deck_name = request.params.note.deckName
          /\ FirstFieldOf(notes[i].fields) = FirstFieldOf(request.params.note.fields)

\* C2: deleteNotes removes exactly the listed notes and exactly the cards
\* whose note id is listed, keeps every other note and card as it was and
\* in order, and changes nothing when no listed id is a note's.
DeleteNotesRemovesExactlyListed ==
    [][request'.action = "deleteNotes" =>
        LET ids == Range(request'.params.notes)
        IN  /\ notes' = SelectSeq(notes, LAMBDA n : n.note_id \notin ids)
            /\ cards' = SelectSeq(cards, LAMBDA c : c.note_id \notin ids)
            /\ (ids \cap NoteIds(State) = {} => Backend' = Backend)
    ]_vars

\* The first note was deleted; the second note and its card are still there.
DeleteLeftOtherNote ==
    /\ request.action = "deleteNotes"
    /\ request.params.notes = <<FirstNoteId>>
    /\ Len(notes) = 1 /\ notes[1].note_id = FirstNoteId + 1
    /\ Len(cards) = 1 /\ cards[1].note_id = FirstNoteId + 1

\* C3: every card's note id is the id of an existing note.
CardsReferenceNotes ==
    \A i \in 1..Len(cards) : cards[i].note_id \in NoteIds(State)

\* After a deletion, with two notes created, one note and its card remain.
CardLeftAfterDelete ==
    /\ request.action = "deleteNotes"
    /\ next_note_id = FirstNoteId + 2
    /\ Len(notes) = 1 /\ Len(cards) = 1

\* What section 4.1 says a token asks of a card.
Holds(tok, card) ==
    CASE tok.kind = "deck" -> Lower(card.deck_name) = tok.name
      [] tok.kind = "tag" ->
            \E i \in 1..Len(notes) :
                /\ notes[i].note_id = card.note_id
                /\ \E k \in 1..Len(notes[i].tags) : Lower(notes[i].tags[k]) = tok.name
      [] tok.kind = "ease" -> card.factor < tok.num
      [] tok.kind = "lapses" -> card.lapses >= tok.num
      [] tok.kind = "suspended" -> card.suspended
      [] tok.kind = "buried" -> card.buried
      [] tok.kind = "due" -> card.queue = QueueReview /\ card.due <= 0
      [] OTHER -> TRUE

SupportedTokenLists ==
    { ts \in TokenLists : \A k \in 1..Len(ts) : ts[k] \in SupportedTokens }

\* C4: findCards returns, in insertion order and each once, exactly the
\* cards that satisfy every supported token of the query, for queries of
\* any number of tokens of each kind.
FindCardsIsConjunctive ==
    request.action = "findCards" =>
        \A ts \in SupportedTokenLists :
            request.params.query = QueryText(ts) =>
                response.result =
                    IdsOfCards(SelectSeq(cards,
                        LAMBDA c : \A k \in 1..Len(ts) : Holds(ts[k], c)))

\* C5: a token that is none of the supported predicates, added to the end
\* of a query, changes neither what findCards nor what findNotes returns,
\* and produces no error.
UnrecognizedTokenIgnored ==
    request.action \in {"findCards", "findNotes"} =>
        \A ts \in TokenLists :
            ( /\ ts # <<>>
              /\ ts[Len(ts)] \in OtherTokens
              /\ request.params.query = QueryText(ts) ) =>
            LET q == [query |-> QueryText(SubSeq(ts, 1, Len(ts) - 1))]
            IN  /\ response.error = None
                /\ response.result =
                      IF request.action = "findCards"
                      THEN find_cards(State, q).result
                      ELSE find_notes(State, q).result

\* C6: for every N, the query prop:ease<N finds exactly the cards whose
\* ease factor is strictly below 1000 * N permille.
EaseQueryIsStrict ==
    \A n \in 0..MaxEase :
        (request.action = "findCards" /\ request.params.query = EaseQuery(n)) =>
            response.result =
                IdsOfCards(SelectSeq(cards, LAMBDA c : c.factor < 1000 * n))

\* prop:ease<2 was asked with a card of ease 2000 (left out) and one of
\* ease 1500 (found).
EaseBoundaryCardLeftOut ==
    /\ request.action = "findCards"
    /\ request.params.query = EaseQuery(2)
    /\ \E i \in 1..Len(cards) :
          cards[i].factor = 2000 /\ cards[i].card_id \notin Range(response.result)
    /\ \E i \in 1..Len(cards) :
          cards[i].factor = LowEaseFactor /\ cards[i].card_id \in Range(response.result)

\* C7: changeDeck sets the deck of every listed existing card to the
\* target, leaves every other attribute of those cards, every unlisted
\* card and every note as they were, and afterwards the target deck exists
\* next to the decks there were.
ChangeDeckMovesOnlyCards ==
    [][request'.action = "changeDeck" =>
        LET ids == Range(request'.params.cards)
            target == request'.params.deck
        IN  /\ Len(cards') = Len(cards)
            /\ \A i \in 1..Len(cards) :
                  cards'[i] = IF cards[i].card_id \in ids
                              THEN [cards[i] EXCEPT !.deck_name = target]
                              ELSE cards[i]
            /\ notes' = notes
            /\ DictHas(decks', target)
            /\ SubSeq(decks', 1, Len(decks)) = decks
    ]_vars

\* A card with lapses was moved to a deck that is not its note's.
CardMovedAwayFromNote ==
    /\ request.action = "changeDeck"
    /\ \E i \in 1..Len(cards) :
          /\ cards[i].card_id \in Range(request.params.cards)
          /\ cards[i].deck_name = request.params.deck
          /\ cards[i].lapses = ProblemLapses
          /\ NoteOf(State, cards[i].note_id)[1].deck_name # cards[i].deck_name

\* C8: forgetCards sets queue, type, interval, lapses and due of every
\* listed existing card to 0 and its ease factor to 2500, and changes
\* nothing else: not the card's flags, deck or text, no unlisted card, no
\* note; ids of no card change nothing.
ForgetResetsScheduling ==
    [][request'.action = "forgetCards" =>
        LET ids == Range(request'.params.cards)
        IN  /\ Len(cards') = Len(cards)
            /\ \A i \in 1..Len(cards) :
                  IF cards[i].card_id \in ids
                  THEN /\ cards'[i].queue = 0 /\ cards'[i].type = 0
                       /\ cards'[i].interval = 0 /\ cards'[i].factor = 2500
                       /\ cards'[i].lapses = 0 /\ cards'[i].due = 0
                       /\ cards'[i].suspended = cards[i].suspended
                       /\ cards'[i].buried = cards[i].buried
                       /\ cards'[i].deck_name = cards[i].deck_name
                       /\ cards'[i].question = cards[i].question
                       /\ cards'[i].answer = cards[i].answer
                       /\ cards'[i].card_id = cards[i].card_id
                       /\ cards'[i].note_id = cards[i].note_id
                  ELSE cards'[i] = cards[i]
            /\ notes' = notes /\ decks' = decks /\ tags' = tags
            /\ (ids \cap CardIds(State) = {} => Backend' = Backend)
    ]_vars

\* A problem card (created with interval 10, in the review queue) was
\* listed and is back at the defaults, next to a card that is suspended.
ProblemCardForgotten ==
    /\ request.action = "forgetCards"
    /\ \E i \in 1..Len(cards) :
          /\ cards[i].card_id \in Range(request.params.cards)
          /\ NoteOf(State, cards[i].note_id)[1].tags = <<"problem-card">>
          /\ cards[i].interval = 0 /\ cards[i].queue = 0 /\ cards[i].lapses = 0
    /\ \E i \in 1..Len(cards) : cards[i].suspended

\* C9: setEaseFactors returns one flag per listed card id, in order; flag i
\* is true exactly when card_ids[i] is an existing card, whose ease factor
\* is then values[i]; an unknown id yields false.
SetEaseOneFlagPerCard ==
    request.action = "setEaseFactors" =>
        LET ids == request.params.cards
            vals == request.params.easeFactors
            flags == response.result
        IN  /\ Len(flags) = Len(ids)
            /\ \A i \in 1..Len(ids) :
                  /\ flags[i] = (ids[i] \in CardIds(State))
                  /\ flags[i] => CardOf(State, ids[i])[1].factor = vals[i]

\* C10: updateNoteFields merges the given values into the note's fields,
\* and when they hold the first (second) declared field name of the note's
\* model, every card of the note has the new value as its question
\* (answer), whatever the model.
UpdateFieldsRefreshesCards ==
    (request.action = "updateNoteFields"
        /\ request.params.note.id \in NoteIds(State)) =>
        LET note_id == request.params.note.id
            fields == request.params.note.fields
            note == NoteOf(State, note_id)[1]
            names == models[note.model_name]
        IN  /\ \A k \in 1..Len(fields) :
                  DictGet(note.fields, fields[k][1], "") = fields[k][2]
            /\ \A i \in 1..Len(cards) :
                  cards[i].note_id = note_id =>
                      /\ DictHas(fields, names[1]) =>
                            cards[i].question = DictGet(fields, names[1], "")
                      /\ DictHas(fields, names[2]) =>
                            cards[i].answer = DictGet(fields, names[2], "")

\* The value a note's fields give to a field name, "" when they give none.
ValueOf(fields, name) ==
    IF \E k \in 1..Len(fields) : fields[k][1] = name
    THEN fields[CHOOSE k \in 1..Len(fields) : fields[k][1] = name][2]
    ELSE ""

\* C11: a successful addNote creates exactly one new card, after the
\* existing ones: it references the new note, sits in the note's deck, has
\* as question and answer the note's values for the first and second
\* declared field names of its model, and starts with the default
\* scheduling attributes (ease 2500, interval 0, lapses 0, queue new, not
\* suspended, not buried); afterwards the deck exists and the note's tags
\* are in the global vocabulary.
AddNoteCreatesOneCard ==
    [][(request'.action = "addNote" /\ response'.result # None) =>
        LET n     == request'.params.note
            id    == response'.result[1]
            names == models[n.modelName]
            c     == cards'[Len(cards')]
        IN  /\ Len(cards') = Len(cards) + 1
            /\ SubSeq(cards', 1, Len(cards)) = cards
            /\ \A i \in 1..Len(cards) : cards[i].card_id # c.card_id
            /\ c.note_id = id
            /\ \E i \in 1..Len(notes') :
                  /\ notes'[i].note_id = id
                  /\ notes'[i].deck_name = c.deck_name
            /\ c.deck_name = n.deckName
            /\ c.question = ValueOf(n.fields, names[1])
            /\ c.answer = ValueOf(n.fields, names[2])
            /\ c.factor = DefaultFactor /\ c.interval = 0 /\ c.lapses = 0
            /\ c.queue = QueueNew /\ ~c.suspended /\ ~c.buried
            /\ \E i \in 1..Len(decks') : decks'[i][1] = n.deckName
            /\ "tags" \in DOMAIN n => Range(n.tags) \subseteq tags'
    ]_vars

\* A Cloze note was added to a deck that did not exist, second of two cards.
AddNoteMadeCard ==
    /\ request.action = "addNote"
    /\ response.result # None
    /\ request.params.note = AdiosSpanish
    /\ Len(cards) = 2
    /\ cards[2].question = "adios" /\ cards[2].answer = "x"
    /\ cards[2].deck_name = "Spanish"
    /\ "noun" \in tags

\* C12: createDeck on a name that already exists returns that deck's id
\* and changes no state, so no id is consumed; no step of any operation
\* removes a deck or changes the id of one, deck names stay unique, and
\* every createDeck returns the id the deck has from then on: each call on
\* one name returns the id the first call returned.
CreateDeckIsIdempotent ==
    [][/\ \A i, j \in 1..Len(decks) : decks[i][1] = decks[j][1] => i = j
       /\ Len(decks') >= Len(decks)
       /\ \A i \in 1..Len(decks) : decks'[i] = decks[i]
       /\ request'.action = "createDeck" =>
            LET name == request'.params.deck
            IN  /\ \E i \in 1..Len(decks') : decks'[i] = <<name, response'.result>>
                /\ (\E i \in 1..Len(decks) : decks[i][1] = name) =>
                      Backend' = Backend
    ]_vars

\* createDeck was called on a deck that changeDeck had created before.
DeckCreatedAgain ==
    /\ request.action = "createDeck"
    /\ request.params.deck = "Spanish"
    /\ response.result = FirstDeckId
    /\ next_deck_id = FirstDeckId + 1
    /\ \E i \in 1..Len(cards) : cards[i].deck_name = "Spanish"

\* C13: in every state reached through addNote, addTags, removeTags and
\* deleteNotes, the global tag vocabulary (what getTags returns) equals
\* the union of the tags of the existing notes.
TagsAreUnionOfNoteTags ==
    tags = UNION { Range(notes[i].tags) : i \in 1..Len(notes) }

\* C14: in every reachable state each note's tags form a set: no tag
\* appears more than once in a note's tags, also after addTags adds a tag
\* the note already carries.
NoteTagsAreSets ==
    \A i \in 1..Len(notes) :
        \A j, k \in 1..Len(notes[i].tags) :
            notes[i].tags[j] = notes[i].tags[k] => j = k

\* What removeTags does to the notes: the listed notes lose exactly the
\* listed tags, and nothing else changes.
RemoveTagsIsSetDifference ==
    [][request'.action = "removeTags" =>
        LET ids     == Range(request'.params.notes)
            removed == Range(Split(request'.params.tags))
        IN  /\ Len(notes') = Len(notes)
            /\ \A i \in 1..Len(notes) :
                  notes'[i] =
                     IF notes[i].note_id \in ids
                     THEN [notes[i] EXCEPT
                              !.tags = SelectSeq(@, LAMBDA t : t \notin removed)]
                     ELSE notes[i]
            /\ UNCHANGED <<decks, cards, tags, next_note_id, next_card_id, next_deck_id>>
    ]_vars

\* C15: after removeTags(note_ids, tags) none of the listed notes carries
\* any of the listed tags, neither in its tag list (what notesInfo shows)
\* nor as a match of the query tag:<t> for a removed tag t.
RemovedTagNoLongerMatches ==
    [][request'.action = "removeTags" =>
        LET ids     == Range(request'.params.notes)
            removed == Range(Split(request'.params.tags))
        IN  \A i \in 1..Len(notes') :
                notes'[i].note_id \in ids =>
                    \A t \in removed :
                        /\ t \notin Range(notes'[i].tags)
                        /\ notes'[i].note_id \notin
                              Range(find_notes(State', [query |-> <<"tag:", t>>]).result)
    ]_vars

\* add_note called on each note of a list in turn: the state it leaves and
\* the list of what the calls return.
RECURSIVE AddEach(_, _)
AddEach(s, ns) ==
    IF ns = <<>> THEN [state |-> s, result |-> <<>>]
    ELSE LET first == add_note(s, [note |-> Head(ns)])
             rest  == AddEach(first.state, Tail(ns))
         IN  [state |-> rest.state, result |-> <<first.result>> \o rest.result]

SameKey(deck, fields, deck2, fields2) ==
    deck = deck2 /\ FirstFieldOf(fields) = FirstFieldOf(fields2)

\* C16: addNotes returns a list as long as its input, aligned with it; the
\* list and the state it leaves are those of addNote called on each note
\* in order: entry i is null exactly when note i has the deck and first
\* field of a note that existed before the batch or of an earlier note of
\* the batch, and a null entry does not keep later notes from being added.
AddNotesIsAddNoteInOrder ==
    [][request'.action = "addNotes" =>
        LET ns  == request'.params.notes
            res == response'.result
            Dup(i) ==
                \/ \E k \in 1..Len(notes) :
                      SameKey(notes[k].deck_name, notes[k].fields,
                              ns[i].deckName, ns[i].fields)
                \/ \E j \in 1..(i - 1) :
                      SameKey(ns[j].deckName, ns[j].fields,
                              ns[i].deckName, ns[i].fields)
            added == { i \in 1..Len(ns) : ~Dup(i) }
        IN  /\ Len(res) = Len(ns)
            /\ \A i \in 1..Len(ns) : (res[i] = None) <=> Dup(i)
            /\ Len(notes') = Len(notes) + Cardinality(added)
            /\ \A i \in added :
                  \E k \in (Len(notes) + 1)..Len(notes') :
                      /\ res[i] = Some(notes'[k].note_id)
                      /\ notes'[k].fields = ns[i].fields
            /\ res = AddEach(State, ns).result
            /\ State' = AddEach(State, ns).state
    ]_vars

\* A batch whose first note was rejected and whose second was added.
BatchWentOnAfterDuplicate ==
    /\ request.action = "addNotes"
    /\ request.params.notes = DupFirstBatch
    /\ response.result = <<None, Some(FirstNoteId + 1)>>
    /\ Len(notes) = 2

\* C17: note ids and card ids are never reused.  Every existing note and
\* card has an id below the counter its id came from, no step lowers a
\* counter, a successful addNote returns the note counter's value, gives
\* its card the card counter's value and advances both, and a rejected
\* duplicate advances neither: an id handed out is greater than every id
\* handed out before, whatever was deleted in between.
IdsNeverReused ==
    [][/\ \A i \in 1..Len(notes) : notes[i].note_id < next_note_id
       /\ \A i \in 1..Len(cards) : cards[i].card_id < next_card_id
       /\ next_note_id' >= next_note_id
       /\ next_card_id' >= next_card_id
       /\ request'.action = "addNote" =>
            IF response'.result = None
            THEN next_note_id' = next_note_id /\ next_card_id' = next_card_id
            ELSE /\ response'.result = Some(next_note_id)
                 /\ next_note_id' = next_note_id + 1
                 /\ cards'[Len(cards')].card_id = next_card_id
                 /\ next_card_id' = next_card_id + 1
    ]_vars

\* A note was added after the first note had been deleted.
AddedAfterDelete ==
    /\ request.action = "addNote"
    /\ response.result = Some(FirstNoteId + 1)
    /\ Len(notes) = 1
    /\ Len(cards) = 1 /\ cards[1].card_id = FirstCardId + 1

\* C18: _invoke raises AnkiConnectError for every response whose error
\* field is not null, whatever the HTTP status of the response, and
\* returns the result field only when the error field is null.
InvokeSignalsBackendError ==
    client.status # 0 =>
        /\ client.data.error # None => client.raised = "AnkiConnectError"
        /\ client.raised = "" =>
              client.data.error = None /\ client.value = client.data.result

Confirmed(arguments) == "confirm" \in DOMAIN arguments /\ arguments.confirm = TRUE

RECURSIVE OneAtATime(_, _)
OneAtATime(s, reqs) ==
    IF reqs = <<>> THEN [state |-> s, responses |-> <<>>]
    ELSE LET out  == dispatch(s, Head(reqs).action, Head(reqs).params)
             rest == OneAtATime(out.state, Tail(reqs))
         IN  [state |-> rest.state,
              responses |-> <<[result |-> out.result, error |-> out.error]>>
                            \o rest.responses]

\* C20: with several requests in flight, the state of the backend and the
\* responses it has given are those of handling the answered requests one
\* at a time in some order: the order in which they were answered.
RequestsAreSerialized ==
    LET run == OneAtATime(MockAnkiState, [k \in 1..Len(served) |-> served[k].data])
    IN  /\ State = run.state
        /\ \A k \in 1..Len(served) : served[k].response = run.responses[k]

\* Two notes with the same first field were in flight together and the
\* one that arrived second was handled first: it was added, the other
\* rejected.
LaterArrivalHandledFirst ==
    /\ Len(served) >= 2
    /\ served[1].id > served[2].id
    /\ served[1].data.action = "addNote" /\ served[1].response.result # None
    /\ served[2].data.action = "addNote" /\ served[2].response.result = None

\* C21: a tool that searches and then changes what it found (suspend_cards,
\* unsuspend_cards, move_cards with a query) acts on exactly the cards
\* that match its query at the moment its change is applied: no change by
\* another tool call takes effect between its two calls.
ToolActsOnCurrentMatches ==
    [][(/\ tool'.name \in {"suspend_cards", "unsuspend_cards", "move_cards",
                           "reset_card_progress"}
        /\ "query" \in DOMAIN tool'.arguments
        /\ tool'.calls # <<>>
        /\ tool'.calls[1] \in {"suspend", "unsuspend", "changeDeck",
                               "forgetCards"}) =>
            request'.params.cards =
                find_cards(State, [query |-> tool'.arguments.query]).result
    ]_vars

\* The result wraps the first occurrence of target in sentence and leaves
\* the rest alone, or is the sentence when target does not occur in it.
WrapsFirst(sentence, target, result) ==
    LET Occurs(i) == /\ i + Len(target) - 1 <= Len(sentence)
                     /\ \A k \in 1..Len(target) : sentence[i + k - 1] = target[k]
        Places == { i \in 1..(Len(sentence) + 1) : Occurs(i) }
    IN  IF Places = {} THEN result = sentence
        ELSE \E i \in Places :
                /\ \A j \in Places : i <= j
                /\ Len(result) = Len(sentence) + Len(ClozeOpen) + Len(ClozeClose)
                /\ \A k \in 1..(i - 1) : result[k] = sentence[k]
                /\ \A k \in 1..Len(ClozeOpen) : result[i - 1 + k] = ClozeOpen[k]
                /\ \A k \in 1..Len(target) :
                        result[i - 1 + Len(ClozeOpen) + k] = target[k]
                /\ \A k \in 1..Len(ClozeClose) :
                        result[i - 1 + Len(ClozeOpen) + Len(target) + k] = ClozeClose[k]
                /\ \A k \in (i + Len(target))..Len(sentence) :
                        result[k + Len(ClozeOpen) + Len(ClozeClose)] = sentence[k]

\* C22: format_sentence_cloze(sentence, target) wraps only the first
\* case-sensitive occurrence of target in {{c1::...}} and leaves every
\* other character of the sentence as it was; when target does not occur,
\* the result is the sentence unchanged.
ClozeWrapsFirstOccurrence ==
    called.function = "format_sentence_cloze" =>
        WrapsFirst(called.args[1], called.args[2], called.result)

\* C22, amended: the same of the sentence and the target without the
\* whitespace at their ends.
ClozeWrapsFirstOccurrenceStripped ==
    called.function = "format_sentence_cloze" =>
        WrapsFirst(strip(called.args[1]), strip(called.args[2]), called.result)

\* A sentence with whitespace at its end in which the target occurs twice
\* was formatted.
ClozeOfRepeatedTarget ==
    /\ called.function = "format_sentence_cloze"
    /\ called.args[1] = <<"a", "A", "a", " ">>
    /\ called.args[2] = <<"a">>
    /\ called.result = ClozeOpen \o <<"a">> \o ClozeClose \o <<"A", "a">>

\* The keys a record of cardsInfo is to have.
CardInfoKeys ==
    {"cardId", "deckName", "factor", "interval", "lapses", "reps", "queue",
     "type", "due", "note"}

\* The result of cardsInfo has one record with the keys for every requested
\* id of an existing card, in the order asked, and none for the other ids.
InfoOfKnownCards(keys) ==
    LET known == SelectSeq(request.params.cards, LAMBDA id : id \in CardIds(State))
    IN  /\ Len(response.result) = Len(known)
        /\ \A k \in 1..Len(known) :
              /\ keys \subseteq DOMAIN response.result[k]
              /\ response.result[k].cardId = known[k]
              /\ response.result[k].type \in 0..3
              /\ response.result[k].queue \in (-3)..4

\* C23: cardsInfo returns, for every requested id of an existing card, one
\* record that contains cardId, deckName, factor, interval, lapses, reps,
\* queue, type, due and note, with reps an integer, type in 0..3 and queue
\* in -3..4; ids of unknown cards yield no record.
CardsInfoRecords ==
    request.action = "cardsInfo" =>
        /\ InfoOfKnownCards(CardInfoKeys)
        /\ \A k \in 1..Len(response.result) : response.result[k].reps \in Int

\* The same without the key reps.
CardsInfoRecordsButReps ==
    request.action = "cardsInfo" => InfoOfKnownCards(CardInfoKeys \ {"reps"})

\* C24: no two distinct notes have the same deck and the same first-field
\* value, whatever addNote, addNotes, updateNoteFields, changeDeck and
\* deleteNotes were requested.
NoTwoNotesAreDuplicates ==
    \A i, j \in 1..Len(notes) :
        (/\ notes[i].deck_name = notes[j].deck_name
         /\ FirstFieldOf(notes[i].fields) = FirstFieldOf(notes[j].fields)) => i = j

\* C24, amended: addNote, addNotes, changeDeck and deleteNotes make no two
\* notes duplicates of each other: where no two notes had the same deck and
\* first-field value before such a request, none have after it.
\* updateNoteFields is not among them.
InsertionKeepsNotesDistinct ==
    [][(/\ request'.action \in {"addNote", "addNotes", "changeDeck", "deleteNotes"}
        /\ NoTwoNotesAreDuplicates) => NoTwoNotesAreDuplicates']_vars

\* Two notes with the same first field live in two decks, and changeDeck
\* has put their cards in one deck.
SameFrontCardsInOneDeck ==
    /\ request.action = "changeDeck"
    /\ Len(notes) = 2 /\ Len(cards) = 2
    /\ FirstFieldOf(notes[1].fields) = FirstFieldOf(notes[2].fields)
    /\ notes[1].deck_name # notes[2].deck_name
    /\ cards[1].deck_name = cards[2].deck_name

\* C25: every request that the backend answers with a non-null error
\* (unknown action, missing parameter, unknown model name, a malformed
\* element inside a batch) has a null result and leaves the backend state
\* exactly as it was before the request.
ErrorLeavesStateAlone ==
    [][response'.error # None =>
            (response'.result = None /\ UNCHANGED Backend)]_vars

\* Every error has a null result, whatever became of the state.
ErrorHasNullResult == response.error # None => response.result = None

\* The note at position i of a batch has the deck and first field of no
\* earlier note of the batch.
Fresh(ns, i) ==
    \A j \in 1..(i - 1) :
        ~SameKey(ns[j].deckName, ns[j].fields, ns[i].deckName, ns[i].fields)

\* A step of canAddNotes changes no state, and answers true at a position
\* (at every position, or at the fresh ones only) exactly when addNotes of
\* the same list in the same state returns an id there.
ProbeAgrees(fresh_only) ==
    request'.action = "canAddNotes" =>
        LET ns    == request'.params.notes
            would == add_notes(State, [notes |-> ns]).result
        IN  /\ UNCHANGED Backend
            /\ Len(response'.result) = Len(ns)
            /\ \A i \in 1..Len(ns) :
                    (fresh_only => Fresh(ns, i)) =>
                        response'.result[i] = (would[i] # None)

\* C26: can_add_notes(notes)[i] is true exactly when add_notes(notes)
\* applied to that same state returns a non-null id at position i;
\* can_add_notes itself changes no state.
CanAddNotesForetellsAddNotes == [][ProbeAgrees(FALSE)]_vars

\* C26, amended: the same at the positions whose note has the deck and
\* first field of no earlier note of the list.
CanAddNotesForetellsFreshNotes == [][ProbeAgrees(TRUE)]_vars

\* canAddNotes told a duplicate of an existing note from a note that can
\* be added.
ProbeToldDuplicateApart ==
    /\ request.action = "canAddNotes"
    /\ request.params.notes = DupFirstBatch
    /\ response.result = <<FALSE, TRUE>>

\* The decks in which the cards of a note are.
CardDecksOf(note) ==
    { cards[k].deck_name : k \in { k \in 1..Len(cards) : cards[k].note_id = note.note_id } }

\* changeDeck has moved every card of the note out of the note's deck.
MovedAway(note) ==
    CardDecksOf(note) # {} /\ note.deck_name \notin CardDecksOf(note)

\* C27: duplicate detection follows the note's deck, not its cards' deck:
\* after changeDeck has moved every card of a note from deck A to deck B,
\* addNote with the same first-field value is still rejected in deck A, and
\* is accepted in deck B (where no note of deck B has that value).
DuplicatesFollowNoteDeck ==
    [][request'.action = "addNote" =>
        \A i \in 1..Len(notes) :
            LET new == request'.params.note
            IN  (/\ MovedAway(notes[i])
                 /\ FirstFieldOf(new.fields) = FirstFieldOf(notes[i].fields)) =>
                    /\ new.deckName = notes[i].deck_name =>
                            (response'.result = None /\ notes' = notes)
                    /\ (/\ new.deckName \in CardDecksOf(notes[i])
                        /\ \A j \in 1..Len(notes) :
                              ~SameKey(notes[j].deck_name, notes[j].fields,
                                       new.deckName, new.fields)) =>
                            /\ response'.result # None
                            /\ Len(notes') = Len(notes) + 1
                            /\ notes'[Len(notes')].deck_name = new.deckName
    ]_vars

\* A note was added to the deck that holds the card of an older note of
\* another deck with the same first field.
AddedBesideMovedCard ==
    /\ request.action = "addNote"
    /\ response.result # None
    /\ Len(notes) = 2
    /\ FirstFieldOf(notes[1].fields) = FirstFieldOf(notes[2].fields)
    /\ MovedAway(notes[1])
    /\ notes[2].deck_name \in CardDecksOf(notes[1])

\* The query get_retention_stats counts the mature cards with, when it is
\* given no deck: prop:ivl>=21.
MatureQuery == <<"prop:ivl>=">> \o Decimal(MatureInterval)

\* C28: findCards with the query prop:ivl>=21 returns exactly the cards
\* whose interval is at least 21 days, so the mature count never includes
\* a card with a shorter interval.
MatureQueryFindsMatureCards ==
    (request.action = "findCards" /\ request.params.query = MatureQuery) =>
        response.result =
            IdsOfCards(SelectSeq(cards, LAMBDA c : c.interval >= MatureInterval))

\* sum(stat.get('total_in_deck', 0) for stat in all_stats.values())
RECURSIVE TotalCards(_)
TotalCards(all_stats) ==
    IF all_stats = <<>> THEN 0
    ELSE Head(all_stats)[2].total_in_deck + TotalCards(Tail(all_stats))

\* C29: the deck name of every card and of every note is a key of the deck
\* table, so the total_in_deck values that getDeckStats reports over all
\* deck names add up to the number of cards.
DeckStatsCountEveryCard ==
    /\ \A i \in 1..Len(cards) : DictHas(decks, cards[i].deck_name)
    /\ \A i \in 1..Len(notes) : DictHas(decks, notes[i].deck_name)
    /\ request.action = "getDeckStats" =>
            TotalCards(response.result) = Len(cards)

\* getDeckStats counted two cards in two decks, one of them in a deck that
\* is not its note's.
StatsOfMovedCard ==
    /\ request.action = "getDeckStats"
    /\ Len(response.result) = 2
    /\ Len(cards) = 2
    /\ cards[1].deck_name # cards[2].deck_name
    /\ \E i \in 1..Len(notes) : MovedAway(notes[i])

\* C30: for every word and pos 'verb', suggest_tags includes 'verb-ar',
\* 'verb-er' or 'verb-ir' exactly when get_verb_type(word) is 'ar', 'er' or
\* 'ir' respectively, and includes 'reflexive' exactly when
\* is_reflexive_verb(word) is true; this covers the reflexive infinitives
\* ending in -arse, -erse and -irse.
SuggestTagsAgreesWithVerbType ==
    (called.function = "suggest_tags" /\ called.args[2] = Some("verb")) =>
        LET word == called.args[1]
            suggested == Range(called.result)
        IN  /\ \A type \in {"ar", "er", "ir"} :
                  ("verb-" \o type \in suggested) <=> (get_verb_type(word) = Some(type))
            /\ ("reflexive" \in suggested) <=> is_reflexive_verb(word)

\* The same for the words that are in lower case, have no whitespace at
\* their ends and do not end in "se".
SuggestTagsAgreesOnPlainVerbs ==
    (/\ called.function = "suggest_tags" /\ called.args[2] = Some("verb")
     /\ called.args[1] = strip(lower(called.args[1]))
     /\ ~endswith(called.args[1], <<"s", "e">>)) =>
        LET word == called.args[1]
            suggested == Range(called.result)
        IN  /\ \A type \in {"ar", "er", "ir"} :
                  ("verb-" \o type \in suggested) <=> (get_verb_type(word) = Some(type))
            /\ "reflexive" \notin suggested


====
